---- MODULE Spec2Model ----
(***************************************************************************)
(* Model of the data cleaning / validation / promotion pipeline:          *)
(*   pipeline/main_pipeline.py        DataPipelineOrchestrator            *)
(*   preprocessing/data_cleaner.py    DataCleaner                         *)
(*   preprocessing/data_validator.py  DataValidator                       *)
(*                                                                         *)
(* Spec  : runs of DataPipelineOrchestrator.run_full_pipeline over the    *)
(*         files under data/ (raw, staging, processed, live, backups).    *)
(*         A file's content is the number of the run that wrote it        *)
(*         (Absent = no file, Old = a file that predates every run,       *)
(*         Truncated = what a write that raised left behind).  Backup     *)
(*         files carry a timestamp in their name; the backups of one run  *)
(*         have distinct names, and backups is the set of all of them.    *)
(* SpecV : DataValidator.validate_basic_expectations applied to small     *)
(*         tables and suites.                                             *)
(***************************************************************************)
EXTENDS Integers, Sequences, FiniteSets, TLC

\* ------------------------------------------------------------------ bounds
MaxRuns == 2

\* ------------------------------------------------------------- file system
Absent == 0
Old == -1
\* what a write that raised may leave behind: to_csv opens its target for
\* writing (emptying it) before it writes
Truncated == -2

Datasets == {"magasins", "concurrents", "transactions"}

\* check_raw_data_availability: the required raw files, in list order
required_files == <<"magasins", "concurrents", "transactions">>

\* DataCleaner.run_full_pipeline: order in which the datasets are cleaned
cleaning_order == <<"magasins", "concurrents", "transactions">>

\* prepare_processed_data: staging file -> processed file, in dict order
staging_files == <<"magasins", "concurrents", "transactions">>

\* update_ml_and_dashboard_data: processed file -> live file, in dict order
processed_files == <<"magasins", "concurrents">>

Range(s) == {s[k] : k \in 1..Len(s)}

VARIABLES
    pc,               \* position of the orchestrator inside run_full_pipeline
    i,                \* index of the loop the orchestrator is in
    run,              \* number of the current run
    skip_validation,  \* argument of the current run
    raw,              \* raw[d]: data/raw/<d>_raw.csv exists
    staging,          \* content of data/staging/<d>_staging.csv
    processed,        \* content of data/processed/<file of d>
    metadata,         \* content of data/processed/metadata.json
    live,             \* content of data/<file of d>
    backups,          \* backup files: records [file, content]
    cleaning_stats,   \* DataCleaner.cleaning_stats: datasets with stats
    pipeline_stats,   \* DataPipelineOrchestrator.pipeline_stats
    quality,          \* quality[d]: expectations the staged table of d fails
    result,           \* what run_full_pipeline handed to its caller
    trace,            \* history: stage events of the current run
    generator_calls,  \* history: calls of generate_all_dirty_data in this run
    warned,           \* history: "Some data validation tests failed!" logged
    raw0,             \* history: raw at the start of the run
    processed0,       \* history: processed at the start of the run
    live0,            \* history: live at the start of the run
    staging0,         \* history: staging at the start of the run
    overwritten,      \* history: processed contents replaced in place
    vdf,              \* validate_basic_expectations: the table df
    vsuite,           \* validate_basic_expectations: the expectations
    vout,             \* validate_basic_expectations: <<>> or <<its result>>
    pop,              \* cleaning primitive under study
    pdf,              \* the table the primitive is first applied to
    parg,             \* its other argument (column subset, strategy)
    pout,             \* the outcomes of its successive applications
    cds,              \* dataset cleaner under study
    craw,             \* the table read from data/raw/<cds>_raw.csv
    cout              \* <<>> or <<the outcome of the cleaner>>

fsvars == <<raw, staging, processed, metadata, live, backups>>
runvars == <<pc, i, run, skip_validation, cleaning_stats, pipeline_stats,
             quality, result>>
histvars == <<trace, generator_calls, warned, raw0, processed0, live0, staging0,
              overwritten>>
pvars == <<pop, pdf, parg, pout>>
cvars == <<cds, craw, cout>>
vvars == <<vdf, vsuite, vout, pvars, cvars>>
vars == <<fsvars, runvars, histvars, vvars>>

\* no primitive and no cleaner is under study
PIdle == pop = "none" /\ pdf = <<>> /\ parg = <<>> /\ pout = <<>>
CIdle == cds = "none" /\ craw = <<>> /\ cout = <<>>

\* ------------------------------------------------------------------ tables
\* A table as pd.read_csv returns it: its columns, the dtype pandas gave
\* each column, and the rows.  A cell is Null (NaN) or <<v>>.
Null == <<>>
EmptyTable == [columns |-> {}, dtype |-> <<>>, rows |-> <<>>]

ColumnValues(df, c) == [k \in 1..Len(df.rows) |-> df.rows[k][c]]
IsNull(x) == x = Null
NotNull(x) == x # Null
dropna(col) == SelectSeq(col, NotNull)
nunique(col) == Cardinality(Range(dropna(col)))
null_count(col) == Cardinality({k \in 1..Len(col) : IsNull(col[k])})

\* ------------------------------------------------------ expectation suites
\* One expectation: its expectation_type and kwargs.  haskey = FALSE models
\* kwargs without the 'column' key; "-" and 0 fill the kwargs a kind lacks.
RowCountBetween(lo, hi) ==
    [expectation_type |-> "expect_table_row_count_to_be_between",
     haskey |-> TRUE, column |-> "-", min_value |-> lo, max_value |-> hi,
     type_ |-> "-"]
ColumnToExist(c) ==
    [expectation_type |-> "expect_column_to_exist",
     haskey |-> TRUE, column |-> c, min_value |-> 0, max_value |-> 0,
     type_ |-> "-"]
ValuesUnique(c) ==
    [expectation_type |-> "expect_column_values_to_be_unique",
     haskey |-> TRUE, column |-> c, min_value |-> 0, max_value |-> 0,
     type_ |-> "-"]
ValuesNotNull(c) ==
    [expectation_type |-> "expect_column_values_to_not_be_null",
     haskey |-> TRUE, column |-> c, min_value |-> 0, max_value |-> 0,
     type_ |-> "-"]
ValuesBetween(c, lo, hi) ==
    [expectation_type |-> "expect_column_values_to_be_between",
     haskey |-> TRUE, column |-> c, min_value |-> lo, max_value |-> hi,
     type_ |-> "-"]
ValuesOfType(c, t) ==
    [expectation_type |-> "expect_column_values_to_be_of_type",
     haskey |-> TRUE, column |-> c, min_value |-> 0, max_value |-> 0,
     type_ |-> t]

create_magasins_expectations ==
    << RowCountBetween(40, 60),
       ColumnToExist("id_magasin"),
       ValuesUnique("id_magasin"),
       ValuesNotNull("ville"),
       ValuesBetween("latitude", 41, 51),
       ValuesBetween("longitude", -5, 10),
       ValuesOfType("ca_annuel", "float64"),
       ValuesBetween("ca_annuel", 100000, 10000000) >>

create_transactions_expectations ==
    << RowCountBetween(4000, 6000),
       ValuesUnique("transaction_id"),
       ValuesNotNull("date"),
       ValuesBetween("montant", 0, 1000),
       ValuesNotNull("magasin_id"),
       ValuesNotNull("categorie") >>

\* validate_all_data: the staging files it looks for, each with its suite
validated_suites ==
    [d \in {"magasins", "transactions"} |->
        IF d = "magasins" THEN create_magasins_expectations
                          ELSE create_transactions_expectations]

\* ------------------------------------------------------------- statistics
SuccessRate_EmptyIsFull(passed, total) ==
    IF total > 0 THEN [num |-> passed * 100, den |-> total]
                 ELSE [num |-> 100, den |-> 1]
\* passed / total * 100 as an exact fraction num/den (den > 0); the code's
\* "if total_tests > 0 else 0" is the fraction 0/1.
SuccessRate(passed, total) ==
    IF total > 0 THEN [num |-> passed * 100, den |-> total]
                 ELSE [num |-> 0, den |-> 1]

RateLess(r, n) == r.num < n * r.den
RateAtLeast(r, n) == r.num >= n * r.den
RateAtMost(r, n) == r.num <= n * r.den

SuiteStatistics_FailedTotal(total_tests, passed_tests) ==
    [total_tests |-> total_tests,
     passed_tests |-> passed_tests,
     failed_tests |-> total_tests,
     success_rate |-> SuccessRate(passed_tests, total_tests)]
\* validate_basic_expectations, lines 302-308: the statistics of a suite
SuiteStatistics(total_tests, passed_tests) ==
    [total_tests |-> total_tests,
     passed_tests |-> passed_tests,
     failed_tests |-> total_tests - passed_tests,
     success_rate |-> SuccessRate(passed_tests, total_tests)]

\* validate_basic_expectations, lines 302-310: the result of a suite
SuiteResult(total_tests, passed_tests, results) ==
    [success |-> passed_tests = total_tests,
     results |-> results,
     statistics |-> SuiteStatistics(total_tests, passed_tests)]

\* ------------------------------------------- validate_basic_expectations
\* test_result['result']: {} ("empty"), the observed values, or the error
EmptyObserved == [tag |-> "empty", observed_value |-> 0,
                  observed_bool |-> FALSE, observed_type |-> "-"]
Observed(n) == [EmptyObserved EXCEPT !.tag = "observed", !.observed_value = n]
ObservedBool(b) == [EmptyObserved EXCEPT !.tag = "observed", !.observed_bool = b]
ObservedType(t) == [EmptyObserved EXCEPT !.tag = "observed", !.observed_type = t]
ErrorObserved == [EmptyObserved EXCEPT !.tag = "error"]

TestResult(e, success, observed) ==
    [expectation_type |-> e.expectation_type, kwargs |-> e,
     success |-> success, result |-> observed]

AbsentColumnResult_Raises(e) == TestResult(e, FALSE, ErrorObserved)
\* validate_basic_expectations, lines 249, 260, 267, 285: "if column in
\* df.columns" is false, the test_result keeps success = False, result = {}
AbsentColumnResult(e) == TestResult(e, FALSE, EmptyObserved)

NumericDtypes == {"int64", "float64"}

\* the values of col that lie in [lo, hi]
within_range(col, lo, hi) ==
    Len(SelectSeq(col, LAMBDA x : x # Null /\ lo <= x[1] /\ x[1] <= hi))

\* validate_basic_expectations, lines 223-300: one iteration of the loop
\* over the expectations, with its try/except.
EvalExpectation(df, e) ==
    LET t == e.expectation_type
        column == e.column
    IN
    IF t = "expect_table_row_count_to_be_between"
    THEN TestResult(e, e.min_value <= Len(df.rows) /\ Len(df.rows) <= e.max_value,
                    Observed(Len(df.rows)))
    ELSE IF t \notin {"expect_column_to_exist",
                      "expect_column_values_to_be_unique",
                      "expect_column_values_to_not_be_null",
                      "expect_column_values_to_be_between",
                      "expect_column_values_to_be_of_type"}
    THEN TestResult(e, FALSE, EmptyObserved)
    ELSE IF ~e.haskey
    THEN TestResult(e, FALSE, ErrorObserved)      \* kwargs['column']: KeyError
    ELSE IF t = "expect_column_to_exist"
    THEN TestResult(e, column \in df.columns, ObservedBool(column \in df.columns))
    ELSE IF column \notin df.columns
    THEN AbsentColumnResult(e)
    ELSE LET col == ColumnValues(df, column) IN
    IF t = "expect_column_values_to_be_unique"
    THEN TestResult(e, nunique(col) = Len(dropna(col)), Observed(nunique(col)))
    ELSE IF t = "expect_column_values_to_not_be_null"
    THEN TestResult(e, null_count(col) = 0, Observed(null_count(col)))
    ELSE IF t = "expect_column_values_to_be_between"
    THEN IF df.dtype[column] \in NumericDtypes
         THEN TestResult(e, within_range(col, e.min_value, e.max_value)
                              = Len(dropna(col)),
                         Observed(within_range(col, e.min_value, e.max_value)))
         ELSE TestResult(e, FALSE, EmptyObserved)
    ELSE TestResult(e, df.dtype[column] = e.type_, ObservedType(df.dtype[column]))

RECURSIVE RunExpectations_AbortOnError(_, _, _, _, _)
RunExpectations_AbortOnError(df, expectations, k, passed_tests, results) ==
    IF k > Len(expectations)
    THEN [passed_tests |-> passed_tests, results |-> results]
    ELSE LET test_result == EvalExpectation(df, expectations[k])
         IN IF test_result.result.tag = "error"
            THEN [passed_tests |-> passed_tests,
                  results |-> Append(results, test_result)]
            ELSE RunExpectations_AbortOnError(df, expectations, k + 1,
                            IF test_result.success THEN passed_tests + 1
                                                   ELSE passed_tests,
                            Append(results, test_result))
\* validate_basic_expectations, lines 220-300: the loop, from expectation k
\* on, with the tests passed and the results appended so far
RECURSIVE RunExpectations(_, _, _, _, _)
RunExpectations(df, expectations, k, passed_tests, results) ==
    IF k > Len(expectations)
    THEN [passed_tests |-> passed_tests, results |-> results]
    ELSE LET test_result == EvalExpectation(df, expectations[k])
         IN RunExpectations(df, expectations, k + 1,
                            IF test_result.success THEN passed_tests + 1
                                                   ELSE passed_tests,
                            Append(results, test_result))

\* validate_basic_expectations, lines 210-310
validate_basic_expectations(df, expectations) ==
    LET loop == RunExpectations(df, expectations, 1, 0, <<>>)
    IN SuiteResult(Len(expectations), loop.passed_tests, loop.results)

RECURSIVE SumOver(_, _)
SumOver(f, S) ==
    IF S = {} THEN 0
    ELSE LET d == CHOOSE x \in S : TRUE IN f[d] + SumOver(f, S \ {d})

ValidationSummary_MeanOfRates(suites) ==
    IF DOMAIN suites = {} THEN <<>>
    ELSE LET total(d) == suites[d].statistics.total_tests
             passed(d) == suites[d].statistics.passed_tests
             total_tests == SumOver([d \in DOMAIN suites |-> total(d)],
                                    DOMAIN suites)
             passed_tests == SumOver([d \in DOMAIN suites |-> passed(d)],
                                     DOMAIN suites)
             common == CHOOSE n \in 1..1000 :
                          \A d \in DOMAIN suites : total(d) > 0 => n % total(d) = 0
             rates == SumOver([d \in DOMAIN suites |->
                                  IF total(d) > 0
                                  THEN passed(d) * 100 * (common \div total(d))
                                  ELSE 0], DOMAIN suites)
         IN << [datasets_validated |-> Cardinality(DOMAIN suites),
                total_tests |-> total_tests,
                passed_tests |-> passed_tests,
                overall_success_rate |->
                    [num |-> rates,
                     den |-> common * Cardinality(DOMAIN suites)],
                overall_success |-> passed_tests = total_tests] >>
\* validate_all_data, lines 339-350: summary over the validated suites.
\* suites: function from the validated dataset names to their SuiteResult.
\* The summary is <<>> when nothing was validated (no 'summary' key).
ValidationSummary(suites) ==
    IF DOMAIN suites = {} THEN <<>>
    ELSE LET total_tests ==
                 SumOver([d \in DOMAIN suites |->
                             suites[d].statistics.total_tests], DOMAIN suites)
             passed_tests ==
                 SumOver([d \in DOMAIN suites |->
                             suites[d].statistics.passed_tests], DOMAIN suites)
         IN << [datasets_validated |-> Cardinality(DOMAIN suites),
                total_tests |-> total_tests,
                passed_tests |-> passed_tests,
                overall_success_rate |-> SuccessRate(passed_tests, total_tests),
                overall_success |-> passed_tests = total_tests] >>

\* validate_all_data, lines 316-336, over the staged tables of a run: a suite
\* is evaluated for each dataset of validated_suites whose staging file
\* exists; the staged table of d fails q[d] expectations of its suite.
validate_all_data(stg, q) ==
    LET found == {d \in DOMAIN validated_suites : stg[d] # Absent}
        suites == [d \in found |->
                      SuiteResult(Len(validated_suites[d]),
                                  Len(validated_suites[d]) - q[d], <<>>)]
    IN [suites |-> suites, summary |-> ValidationSummary(suites)]

\* run_data_validation, lines 108 and 112: .get() with its defaults
overall_success(summary) ==
    IF summary = <<>> THEN FALSE ELSE summary[1].overall_success
overall_success_rate(summary) ==
    IF summary = <<>> THEN [num |-> 0, den |-> 1]
                      ELSE summary[1].overall_success_rate

\* run_data_validation, line 109: the warning is logged
GateWarns(summary) == ~overall_success(summary)

GateRaisesAt80(summary) ==
    /\ ~overall_success(summary)
    /\ LET r == overall_success_rate(summary)
       IN 100 * r.den - r.num >= 20 * r.den
\* run_data_validation, lines 108-114: ValueError("Too many validation
\* failures") when failed_rate = 100 - overall_success_rate > 20
GateRaises(summary) ==
    /\ ~overall_success(summary)
    /\ LET r == overall_success_rate(summary)
       IN 100 * r.den - r.num > 20 * r.den

\* ------------------------------------------------------- orchestrator run
\* self.pipeline_stats = {} (main_pipeline.py line 35): each key is <<>>
\* while absent and a one-element sequence once set.
EmptyStats == [cleaning |-> <<>>, validation |-> <<>>,
               execution_time_seconds |-> FALSE]

NoResult == [kind |-> "none", success |-> FALSE, error |-> "none",
             stats |-> EmptyStats]

\* run_full_pipeline, lines 305-310: the result of a completed run
SuccessResult(stats) ==
    [kind |-> "returned", success |-> TRUE, error |-> "none", stats |-> stats]

FailureResult_Reraise(e, stats) ==
    [kind |-> "raised", success |-> FALSE, error |-> e, stats |-> EmptyStats]
\* run_full_pipeline, lines 312-321: except Exception -> structured result
FailureResult(e, stats) ==
    [kind |-> "returned", success |-> FALSE, error |-> e, stats |-> stats]

Ev(op, d) == [op |-> op, d |-> d]

\* check_raw_data_availability, lines 57-76
check_raw_data_availability(r) ==
    {f \in Range(required_files) : ~r[f]} = {}

\* the largest number of failed expectations a staged table of d can have;
\* concurrents has no suite: 1 stands for "the table has a defect"
MaxFailed(d) ==
    IF d \in DOMAIN validated_suites THEN Len(validated_suites[d]) ELSE 1

Init ==
    /\ pc = "idle"
    /\ i = 0
    /\ run = 0
    /\ skip_validation = FALSE
    /\ raw \in [Datasets -> BOOLEAN]
    /\ staging = [d \in Datasets |-> Absent]
    /\ processed = [d \in Datasets |-> Absent]
    /\ metadata = Absent
    /\ live \in {[d \in Datasets |-> Absent],
                 [d \in Datasets |-> IF d \in Range(processed_files)
                                     THEN Old ELSE Absent]}
    /\ backups = {}
    /\ cleaning_stats = {}
    /\ pipeline_stats = EmptyStats
    /\ quality = [d \in Datasets |-> 0]
    /\ result = NoResult
    /\ trace = <<>>
    /\ generator_calls = 0
    /\ warned = FALSE
    /\ raw0 = raw
    /\ processed0 = processed
    /\ live0 = live
    /\ staging0 = staging
    /\ overwritten = {}
    /\ vdf = EmptyTable /\ vsuite = <<>> /\ vout = <<>>
    /\ PIdle /\ CIdle

Raise_Continue(e, stats) ==
    /\ pc' = pc
    /\ result' = FailureResult(e, stats)
\* The exception reaches the except clause of run_full_pipeline.
Raise(e, stats) ==
    /\ pc' = "failed"
    /\ result' = FailureResult(e, stats)

\* daily_pipeline.py lines 171-172: a new orchestrator is built and
\* run_full_pipeline(skip_validation) is called.
StartRun ==
    /\ pc \in {"idle", "done", "failed"}
    /\ run < MaxRuns
    /\ run' = run + 1
    /\ skip_validation' \in BOOLEAN
    /\ pc' = "check_raw"
    /\ i' = 0
    /\ cleaning_stats' = {}
    /\ pipeline_stats' = EmptyStats
    /\ quality' = [d \in Datasets |-> 0]
    /\ result' = NoResult
    /\ trace' = <<>>
    /\ generator_calls' = 0
    /\ warned' = FALSE
    /\ raw0' = raw
    /\ processed0' = processed
    /\ live0' = live
    /\ staging0' = staging
    /\ UNCHANGED <<fsvars, overwritten, vvars>>

\* run_full_pipeline, line 268: the first availability check
CheckRawData ==
    /\ pc = "check_raw"
    /\ trace' = Append(trace, Ev("check_raw", "-"))
    /\ IF check_raw_data_availability(raw)
       THEN pc' = "clean" /\ i' = 1
       ELSE pc' = "generate" /\ i' = 0
    /\ UNCHANGED <<fsvars, run, skip_validation, cleaning_stats,
                   pipeline_stats, quality, result, generator_calls, warned,
                   raw0, processed0, live0, staging0, overwritten, vvars>>

\* run_full_pipeline, lines 272-276, and generate_all_dirty_data
\* (generate_dirty_data.py lines 305-343): the generator writes the raw
\* files in order under its own project root; it may raise after k files,
\* and its root need not be the orchestrator's.
GenerateDirtyData ==
    /\ pc = "generate"
    /\ trace' = Append(trace, Ev("generate", "-"))
    /\ generator_calls' = generator_calls + 1
    /\ \/ \E k \in 0..(Len(required_files) - 1) :
            /\ raw' = [d \in Datasets |->
                         raw[d] \/ \E j \in 1..k : required_files[j] = d]
            /\ Raise("generator", pipeline_stats)
            /\ i' = i
       \/ /\ raw' = [d \in Datasets |-> TRUE]
          /\ pc' = "recheck" /\ i' = 0
          /\ result' = result
       \/ /\ raw' = raw
          /\ pc' = "recheck" /\ i' = 0
          /\ result' = result
    /\ UNCHANGED <<staging, processed, metadata, live, backups, run,
                   skip_validation, cleaning_stats, pipeline_stats, quality,
                   warned, raw0, processed0, live0, staging0, overwritten, vvars>>

RecheckRawData_Retry ==
    /\ pc = "recheck"
    /\ trace' = Append(trace, Ev("check_raw", "-"))
    /\ IF check_raw_data_availability(raw)
       THEN pc' = "clean" /\ i' = 1 /\ result' = result
       ELSE pc' = "generate" /\ i' = i /\ result' = result
    /\ UNCHANGED <<fsvars, run, skip_validation, cleaning_stats,
                   pipeline_stats, quality, generator_calls, warned,
                   raw0, processed0, live0, staging0, overwritten, vvars>>
\* run_full_pipeline, lines 278-279: the second availability check
RecheckRawData ==
    /\ pc = "recheck"
    /\ trace' = Append(trace, Ev("check_raw", "-"))
    /\ IF check_raw_data_availability(raw)
       THEN pc' = "clean" /\ i' = 1 /\ result' = result
       ELSE Raise("FileNotFoundError", pipeline_stats) /\ i' = i
    /\ UNCHANGED <<fsvars, run, skip_validation, cleaning_stats,
                   pipeline_stats, quality, generator_calls, warned,
                   raw0, processed0, live0, staging0, overwritten, vvars>>

CleanDataset_TruncateOnRaise ==
    /\ pc = "clean"
    /\ LET d == cleaning_order[i] IN
       /\ \/ /\ trace' = Append(trace, Ev("clean", d))
             /\ Raise("cleaning", pipeline_stats)
             /\ staging' = [staging EXCEPT ![d] = Truncated]
             /\ UNCHANGED <<i, cleaning_stats, quality>>
          \/ /\ raw[d]
             /\ trace' = Append(trace, Ev("clean", d))
             /\ cleaning_stats' = cleaning_stats \cup {d}
             /\ \E c \in {staging[d], Truncated} :
                    staging' = [staging EXCEPT ![d] = c]
             /\ Raise("cleaning", pipeline_stats)
             /\ UNCHANGED <<i, quality>>
          \/ /\ raw[d]
             /\ trace' = Append(Append(trace, Ev("clean", d)), Ev("stage", d))
             /\ cleaning_stats' = cleaning_stats \cup {d}
             /\ staging' = [staging EXCEPT ![d] = run]
             /\ \E q \in 0..MaxFailed(d) : quality' = [quality EXCEPT ![d] = q]
             /\ IF i < Len(cleaning_order)
                THEN pc' = "clean" /\ i' = i + 1
                ELSE pc' = "cleaning_report" /\ i' = 0
             /\ result' = result
    /\ UNCHANGED <<raw, processed, metadata, live, backups, run,
                   skip_validation, pipeline_stats, generator_calls, warned,
                   raw0, processed0, live0, staging0, overwritten, vvars>>
\* DataCleaner.run_full_pipeline, lines 431-442: clean_<d>_data reads the raw
\* file and records cleaning_stats[d]; save_staging_data writes the staged
\* table.  Either call may raise (unreadable or empty raw file, failed write).
CleanDataset ==
    /\ pc = "clean"
    /\ LET d == cleaning_order[i] IN
       /\ \/ /\ trace' = Append(trace, Ev("clean", d))
             /\ Raise("cleaning", pipeline_stats)
             /\ UNCHANGED <<i, cleaning_stats, staging, quality>>
          \/ /\ raw[d]
             /\ trace' = Append(trace, Ev("clean", d))
             /\ cleaning_stats' = cleaning_stats \cup {d}
             /\ \E c \in {staging[d], Truncated} :
                    staging' = [staging EXCEPT ![d] = c]
             /\ Raise("cleaning", pipeline_stats)
             /\ UNCHANGED <<i, quality>>
          \/ /\ raw[d]
             /\ trace' = Append(Append(trace, Ev("clean", d)), Ev("stage", d))
             /\ cleaning_stats' = cleaning_stats \cup {d}
             /\ staging' = [staging EXCEPT ![d] = run]
             /\ \E q \in 0..MaxFailed(d) : quality' = [quality EXCEPT ![d] = q]
             /\ IF i < Len(cleaning_order)
                THEN pc' = "clean" /\ i' = i + 1
                ELSE pc' = "cleaning_report" /\ i' = 0
             /\ result' = result
    /\ UNCHANGED <<raw, processed, metadata, live, backups, run,
                   skip_validation, pipeline_stats, generator_calls, warned,
                   raw0, processed0, live0, staging0, overwritten, vvars>>

CleaningReport_AlwaysValidate ==
    /\ pc = "cleaning_report"
    /\ trace' = Append(trace, Ev("cleaning_report", "-"))
    /\ \/ /\ Raise("cleaning", pipeline_stats)
          /\ UNCHANGED <<i, pipeline_stats>>
       \/ /\ pipeline_stats' = [pipeline_stats EXCEPT
                                   !.cleaning = <<cleaning_stats>>]
          /\ pc' = "validate" /\ i' = 0
          /\ result' = result
    /\ UNCHANGED <<fsvars, run, skip_validation, cleaning_stats, quality,
                   generator_calls, warned, raw0, processed0, live0, staging0, overwritten,
                   vvars>>
\* DataCleaner.run_full_pipeline, lines 444-454 (the cleaning report is
\* written), then run_data_cleaning, line 87, and run_full_pipeline,
\* lines 285-288.
CleaningReport ==
    /\ pc = "cleaning_report"
    /\ trace' = Append(trace, Ev("cleaning_report", "-"))
    /\ \/ /\ Raise("cleaning", pipeline_stats)
          /\ UNCHANGED <<i, pipeline_stats>>
       \/ /\ pipeline_stats' = [pipeline_stats EXCEPT
                                   !.cleaning = <<cleaning_stats>>]
          /\ IF skip_validation
             THEN pc' = "promote" /\ i' = 1
             ELSE pc' = "validate" /\ i' = 0
          /\ result' = result
    /\ UNCHANGED <<fsvars, run, skip_validation, cleaning_stats, quality,
                   generator_calls, warned, raw0, processed0, live0, staging0, overwritten,
                   vvars>>

RunValidation_GateOff ==
    /\ pc = "validate"
    /\ trace' = Append(trace, Ev("validate", "-"))
    /\ LET validation_results == validate_all_data(staging, quality) IN
       /\ pipeline_stats' = [pipeline_stats EXCEPT
                               !.validation = <<validation_results.summary>>]
       /\ warned' = GateWarns(validation_results.summary)
       /\ pc' = "promote" /\ i' = 1 /\ result' = result
    /\ UNCHANGED <<fsvars, run, skip_validation, cleaning_stats, quality,
                   generator_calls, raw0, processed0, live0, staging0, overwritten, vvars>>
\* run_data_validation, lines 96-121: the validator runs over the staging
\* files (it may raise: unreadable file, report not writable); its summary is
\* stored in pipeline_stats and the gate decides.
RunValidation ==
    /\ pc = "validate"
    /\ trace' = Append(trace, Ev("validate", "-"))
    /\ \/ /\ Raise("validation", pipeline_stats)
          /\ UNCHANGED <<i, pipeline_stats, warned>>
       \/ LET validation_results == validate_all_data(staging, quality) IN
          /\ pipeline_stats' = [pipeline_stats EXCEPT
                                  !.validation = <<validation_results.summary>>]
          /\ warned' = GateWarns(validation_results.summary)
          /\ IF GateRaises(validation_results.summary)
             THEN Raise("gate", pipeline_stats') /\ i' = i
             ELSE pc' = "promote" /\ i' = 1 /\ result' = result
    /\ UNCHANGED <<fsvars, run, skip_validation, cleaning_stats, quality,
                   generator_calls, raw0, processed0, live0, staging0, overwritten, vvars>>

\* history: the content a processed file loses when new content is written
\* over it in place (the output of an earlier run, or a file older than that)
Replaced(d, old, new) ==
    IF old \in {Absent, Truncated} \/ old = new THEN {}
    ELSE {[file |-> d, content |-> old]}

\* prepare_processed_data, lines 138-145: one iteration of the copy loop.
\* df.to_csv(processed_path) replaces the processed file in place.
PromoteFile ==
    /\ pc = "promote"
    /\ LET d == staging_files[i] IN
       /\ trace' = Append(trace, Ev("promote", d))
       /\ \/ /\ Raise("promotion", pipeline_stats)
             /\ \E c \in {processed[d], Truncated} :
                    /\ processed' = [processed EXCEPT ![d] = c]
                    /\ overwritten' = overwritten \cup Replaced(d, processed[d], c)
             /\ UNCHANGED i
          \/ /\ IF staging[d] # Absent
                THEN /\ processed' = [processed EXCEPT ![d] = staging[d]]
                     /\ overwritten' = overwritten \cup
                                         Replaced(d, processed[d], staging[d])
                ELSE UNCHANGED <<processed, overwritten>>
             /\ IF i < Len(staging_files)
                THEN pc' = "promote" /\ i' = i + 1
                ELSE pc' = "metadata" /\ i' = 0
             /\ result' = result
    /\ UNCHANGED <<raw, staging, metadata, live, backups, run,
                   skip_validation, cleaning_stats, pipeline_stats, quality,
                   generator_calls, warned, raw0, processed0, live0, staging0, vvars>>

\* prepare_processed_data, lines 147-158: metadata.json
WriteMetadata ==
    /\ pc = "metadata"
    /\ trace' = Append(trace, Ev("metadata", "-"))
    /\ \/ /\ Raise("promotion", pipeline_stats)
          /\ UNCHANGED <<i, metadata>>
       \/ /\ metadata' = run
          /\ pc' = "live_backup" /\ i' = 1
          /\ result' = result
    /\ UNCHANGED <<raw, staging, processed, live, backups, run,
                   skip_validation, cleaning_stats, pipeline_stats, quality,
                   generator_calls, warned, raw0, processed0, live0, staging0, overwritten,
                   vvars>>

\* Where the live-update loop goes after the file at index k.
AfterLiveFile(k) ==
    IF k < Len(processed_files)
    THEN pc' = "live_backup" /\ i' = k + 1
    ELSE pc' = "report" /\ i' = 0

LiveBackup_NoRename ==
    /\ pc = "live_backup"
    /\ LET d == processed_files[i] IN
       /\ trace' = Append(trace, Ev("live_backup", d))
       /\ pc' = "live_write" /\ i' = i /\ result' = result
       /\ UNCHANGED <<live, backups>>
    /\ UNCHANGED <<raw, staging, processed, metadata, run, skip_validation,
                   cleaning_stats, pipeline_stats, quality, generator_calls,
                   warned, raw0, processed0, live0, staging0, overwritten, vvars>>
\* update_ml_and_dashboard_data, lines 180-191: the processed file is read
\* and the live file, when there is one, is renamed to its backup path.
LiveBackup ==
    /\ pc = "live_backup"
    /\ LET d == processed_files[i] IN
       IF processed[d] = Absent
       THEN /\ trace' = trace
            /\ AfterLiveFile(i) /\ result' = result
            /\ UNCHANGED <<live, backups>>
       ELSE /\ trace' = Append(trace, Ev("live_backup", d))
            /\ \/ /\ Raise("live", pipeline_stats)
                  /\ UNCHANGED <<i, live, backups>>
               \/ /\ IF live[d] # Absent
                     THEN /\ backups' = backups \cup
                                  {[file |-> d, content |-> live[d]]}
                          /\ live' = [live EXCEPT ![d] = Absent]
                     ELSE UNCHANGED <<live, backups>>
                  /\ pc' = "live_write" /\ i' = i /\ result' = result
    /\ UNCHANGED <<raw, staging, processed, metadata, run, skip_validation,
                   cleaning_stats, pipeline_stats, quality, generator_calls,
                   warned, raw0, processed0, live0, staging0, overwritten, vvars>>

\* update_ml_and_dashboard_data, lines 193-195: the new live file is written
LiveWrite ==
    /\ pc = "live_write"
    /\ LET d == processed_files[i] IN
       /\ trace' = Append(trace, Ev("live_write", d))
       /\ \/ /\ Raise("live", pipeline_stats)
             /\ \E c \in {live[d], Truncated} : live' = [live EXCEPT ![d] = c]
             /\ UNCHANGED i
          \/ /\ live' = [live EXCEPT ![d] = processed[d]]
             /\ AfterLiveFile(i) /\ result' = result
    /\ UNCHANGED <<raw, staging, processed, metadata, backups, run,
                   skip_validation, cleaning_stats, pipeline_stats, quality,
                   generator_calls, warned, raw0, processed0, live0, staging0, overwritten,
                   vvars>>

\* run_full_pipeline, lines 296-310: execution time, report, result
GenerateReport ==
    /\ pc = "report"
    /\ trace' = Append(trace, Ev("report", "-"))
    /\ pipeline_stats' = [pipeline_stats EXCEPT
                             !.execution_time_seconds = TRUE]
    /\ \/ Raise("report", pipeline_stats')
       \/ /\ pc' = "done"
          /\ result' = SuccessResult(pipeline_stats')
    /\ UNCHANGED <<fsvars, i, run, skip_validation, cleaning_stats, quality,
                   generator_calls, warned, raw0, processed0, live0, staging0, overwritten,
                   vvars>>

Next ==
    \/ StartRun
    \/ CheckRawData
    \/ GenerateDirtyData
    \/ RecheckRawData
    \/ CleanDataset
    \/ CleaningReport
    \/ RunValidation
    \/ PromoteFile
    \/ WriteMetadata
    \/ LiveBackup
    \/ LiveWrite
    \/ GenerateReport

Spec == Init /\ [][Next]_vars

\* ------------------------------------------------- the validator on tables
MaxRows == 2
MaxSuiteLen == 2

CellValues == {0, 1, 2}

RECURSIVE SeqsUpTo(_, _)
SeqsUpTo(S, n) ==
    IF n = 0 THEN {<<>>}
    ELSE LET shorter == SeqsUpTo(S, n - 1)
         IN shorter \cup {Append(q, x) : q \in {r \in shorter : Len(r) = n - 1},
                                         x \in S}

\* the cells a column of the given dtype can hold after pd.read_csv
CellsOf(dtype) ==
    IF dtype = "int64" THEN {<<v>> : v \in CellValues}
    ELSE {<<v>> : v \in CellValues} \cup {Null}

\* the tables with at most the column "a" and at most MaxRows rows
SampleTables ==
    {[columns |-> {}, dtype |-> <<>>, rows |-> [k \in 1..n |-> <<>>]] :
        n \in 0..MaxRows}
    \cup
    {[columns |-> {"a"}, dtype |-> [c \in {"a"} |-> t],
      rows |-> [k \in 1..Len(cells) |-> [c \in {"a"} |-> cells[k]]]] :
        t \in {"object"}, cells \in SeqsUpTo(CellsOf("object"), MaxRows)}
    \cup
    UNION {{[columns |-> {"a"}, dtype |-> [c \in {"a"} |-> t],
             rows |-> [k \in 1..Len(cells) |-> [c \in {"a"} |-> cells[k]]]] :
               cells \in SeqsUpTo(CellsOf(t), MaxRows) \ {<<>>}} :
           t \in NumericDtypes}

SampleExpectations ==
    {RowCountBetween(1, 2),
     ColumnToExist("a"), ColumnToExist("b"),
     ValuesUnique("a"),
     ValuesNotNull("a"), ValuesNotNull("b"),
     ValuesBetween("a", 1, 2),
     ValuesOfType("a", "float64"),
     [ValuesNotNull("a") EXCEPT !.haskey = FALSE]}

InitV ==
    /\ pc = "idle"
    /\ i = 0
    /\ run = 0
    /\ skip_validation = FALSE
    /\ raw = [d \in Datasets |-> TRUE]
    /\ staging = [d \in Datasets |-> Absent]
    /\ processed = [d \in Datasets |-> Absent]
    /\ metadata = Absent
    /\ live = [d \in Datasets |-> Absent]
    /\ backups = {}
    /\ cleaning_stats = {}
    /\ pipeline_stats = EmptyStats
    /\ quality = [d \in Datasets |-> 0]
    /\ result = NoResult
    /\ trace = <<>>
    /\ generator_calls = 0
    /\ warned = FALSE
    /\ raw0 = raw
    /\ processed0 = processed
    /\ live0 = live
    /\ staging0 = staging
    /\ overwritten = {}
    /\ vdf \in SampleTables
    /\ vsuite \in SeqsUpTo(SampleExpectations, MaxSuiteLen)
    /\ vout = <<>>
    /\ PIdle /\ CIdle

\* DataValidator.validate_basic_expectations(df, expectations)
ValidateSuite ==
    /\ vout = <<>>
    /\ vout' = <<validate_basic_expectations(vdf, vsuite)>>
    /\ UNCHANGED <<vdf, vsuite, pvars, cvars, fsvars, runvars, histvars>>

\* validate_all_data, lines 339-350: the summary of validation_results that
\* hold the result of the suite for both validated datasets
SummariseSuite ==
    /\ Len(vout) = 1
    /\ vout' = Append(vout, ValidationSummary(
                   [d \in DOMAIN validated_suites |-> vout[1]]))
    /\ UNCHANGED <<vdf, vsuite, pvars, cvars, fsvars, runvars, histvars>>

NextV ==
    \/ ValidateSuite
    \/ SummariseSuite

SpecV == InitV /\ [][NextV]_vars

\* ------------------------------------------- the cleaning primitives on tables
\* the orchestrator is idle while a primitive or a cleaner is studied
MainIdle ==
    /\ pc = "idle"
    /\ i = 0
    /\ run = 0
    /\ skip_validation = FALSE
    /\ raw = [d \in Datasets |-> TRUE]
    /\ staging = [d \in Datasets |-> Absent]
    /\ processed = [d \in Datasets |-> Absent]
    /\ metadata = Absent
    /\ live = [d \in Datasets |-> Absent]
    /\ backups = {}
    /\ cleaning_stats = {}
    /\ pipeline_stats = EmptyStats
    /\ quality = [d \in Datasets |-> 0]
    /\ result = NoResult
    /\ trace = <<>>
    /\ generator_calls = 0
    /\ warned = FALSE
    /\ raw0 = raw
    /\ processed0 = processed
    /\ live0 = live
    /\ staging0 = staging
    /\ overwritten = {}
    /\ vdf = EmptyTable /\ vsuite = <<>> /\ vout = <<>>

\* the outcome of a call: the table it returned, or the exception it raised
Returned(df) == [raised |-> FALSE, error |-> "", df |-> df]
Raised(error) == [raised |-> TRUE, error |-> error, df |-> EmptyTable]

\* df[mask]: the rows of df at the positions where mask is true, in order
FilterRows(df, mask) ==
    LET kept == SelectSeq([k \in 1..Len(mask) |-> k], LAMBDA k : mask[k])
    IN [df EXCEPT !.rows = [k \in 1..Len(kept) |-> df.rows[kept[k]]]]

\* df[column] = values: the column replaced cell by cell
SetColumn(df, column, values) ==
    [df EXCEPT !.rows = [k \in 1..Len(df.rows) |->
                            [df.rows[k] EXCEPT ![column] = values[k]]]]

\* DataFrame.drop_duplicates(subset, keep='first'): a row is dropped when an
\* earlier row agrees with it on subset (missing cells agree with each other)
drop_duplicates(df, subset) ==
    FilterRows(df, [k \in 1..Len(df.rows) |->
        \A j \in 1..(k - 1) :
            \E c \in subset : df.rows[j][c] # df.rows[k][c]])

\* DataCleaner.remove_duplicates(df, subset_cols), lines 193-207; the log
\* line 205 divides removed_count by initial_count
remove_duplicates(df, subset_cols) ==
    LET initial_count == Len(df.rows)
        deduped == drop_duplicates(df, IF subset_cols # {} THEN subset_cols
                                                           ELSE df.columns)
    IN IF initial_count = 0 THEN Raised("ZeroDivisionError")
       ELSE Returned(deduped)

\* the strings of the sample cells, in the order Python sorts them
SortedStrings == <<"", " ", "  ", "   ", "#N/A", "Alimentaire", "Lyon", "N/A",
                   "NULL", "None", "Paris", "Textile", "n/a", "null", "x",
                   "y">>
\* the sort key of a value of a column of the given dtype
SortKey(dtype, v) ==
    IF dtype = "object"
    THEN CHOOSE k \in 1..Len(SortedStrings) : SortedStrings[k] = v
    ELSE v

\* the k-th smallest of a sequence of numbers
KthSmallest(vals, k) ==
    CHOOSE v \in Range(vals) :
        /\ Cardinality({j \in 1..Len(vals) : vals[j] < v}) < k
        /\ Cardinality({j \in 1..Len(vals) : vals[j] <= v}) >= k

median_LowerMiddle(col) ==
    LET vals == [k \in 1..Len(dropna(col)) |-> dropna(col)[k][1]]
        n == Len(vals)
    IN IF n = 0 THEN Null ELSE <<KthSmallest(vals, (n + 1) \div 2)>>
\* Series.median(): missing cells are skipped; the middle value, or the mean
\* of the two middle values (the sample values are even, so the mean of two
\* is a whole number); missing when there is no value
median(col) ==
    LET vals == [k \in 1..Len(dropna(col)) |-> dropna(col)[k][1]]
        n == Len(vals)
    IN IF n = 0 THEN Null
       ELSE IF n % 2 = 1 THEN <<KthSmallest(vals, (n + 1) \div 2)>>
       ELSE <<(KthSmallest(vals, n \div 2)
               + KthSmallest(vals, n \div 2 + 1)) \div 2>>

\* Series.mode().iloc[0]: the most frequent non-missing value, the smallest
\* one when several tie; <<>> (an empty Series) when there is no value
mode(dtype, col) ==
    LET vals == dropna(col)
        count(v) == Cardinality({j \in 1..Len(vals) : vals[j] = v})
        modes == {v \in Range(vals) : \A w \in Range(vals) : count(w) <= count(v)}
    IN IF vals = <<>> THEN <<>>
       ELSE <<CHOOSE v \in modes :
                \A w \in modes : SortKey(dtype, v[1]) <= SortKey(dtype, w[1])>>

\* Series.fillna(value)
fillna(col, value) ==
    [k \in 1..Len(col) |-> IF col[k] = Null THEN value ELSE col[k]]
\* Series.fillna(method='ffill'): the nearest preceding non-missing cell
ffill(col) ==
    [k \in 1..Len(col) |->
        LET before == {j \in 1..k : col[j] # Null}
        IN IF before = {} THEN Null
           ELSE col[CHOOSE j \in before : \A h \in before : h <= j]]
\* Series.fillna(method='bfill'): the nearest following non-missing cell
bfill(col) ==
    [k \in 1..Len(col) |->
        LET after == {j \in k..Len(col) : col[j] # Null}
        IN IF after = {} THEN Null
           ELSE col[CHOOSE j \in after : \A h \in after : j <= h]]

\* clean_null_values, line 58: the strings of null_variants (None and np.nan
\* are the missing cell itself)
null_variants == {"", "  ", "NULL", "null", "N/A", "n/a", "#N/A", "None"}

\* Series.replace(null_variants, np.nan), line 64: a cell equal to one of the
\* listed values becomes missing; a numeric cell equals none of the strings
replace_null_variants(dtype, col) ==
    [k \in 1..Len(col) |->
        IF col[k] = Null THEN Null
        ELSE IF dtype = "object" /\ col[k][1] \in null_variants THEN Null
        ELSE col[k]]

clean_null_values_DefaultRemove(df, column, strategy) ==
    LET dtype == df.dtype[column]
        replaced == SetColumn(df, column,
                        replace_null_variants(dtype, ColumnValues(df, column)))
        col == ColumnValues(replaced, column)
    IN IF strategy = "remove"
       THEN FilterRows(replaced, [k \in 1..Len(col) |-> col[k] # Null])
       ELSE IF strategy = "forward_fill"
       THEN SetColumn(replaced, column, ffill(col))
       ELSE IF strategy = "backward_fill"
       THEN SetColumn(replaced, column, bfill(col))
       ELSE IF strategy = "median" /\ dtype \in NumericDtypes
       THEN SetColumn(replaced, column, fillna(col, median(col)))
       ELSE IF strategy = "mode"
       THEN IF mode(dtype, col) # <<>>
            THEN SetColumn(replaced, column, fillna(col, mode(dtype, col)[1]))
            ELSE replaced
       ELSE FilterRows(replaced, [k \in 1..Len(col) |-> col[k] # Null])
\* DataCleaner.clean_null_values(df, column, strategy), lines 55-83
clean_null_values(df, column, strategy) ==
    LET dtype == df.dtype[column]
        replaced == SetColumn(df, column,
                        replace_null_variants(dtype, ColumnValues(df, column)))
        col == ColumnValues(replaced, column)
    IN IF strategy = "remove"
       THEN FilterRows(replaced, [k \in 1..Len(col) |-> col[k] # Null])
       ELSE IF strategy = "forward_fill"
       THEN SetColumn(replaced, column, ffill(col))
       ELSE IF strategy = "backward_fill"
       THEN SetColumn(replaced, column, bfill(col))
       ELSE IF strategy = "median" /\ dtype \in NumericDtypes
       THEN SetColumn(replaced, column, fillna(col, median(col)))
       ELSE IF strategy = "mode"
       THEN IF mode(dtype, col) # <<>>
            THEN SetColumn(replaced, column, fillna(col, mode(dtype, col)[1]))
            ELSE replaced
       ELSE replaced

\* the table object the caller passed to clean_null_values, after the call:
\* line 64 and the fills of lines 69-77 assign df[column] on that object;
\* line 67 binds df to the new table dropna returns
clean_null_values_inplace(df, column, strategy) ==
    IF strategy = "remove"
    THEN SetColumn(df, column,
             replace_null_variants(df.dtype[column], ColumnValues(df, column)))
    ELSE clean_null_values(df, column, strategy)

MaxNullRows == 3
\* the strategies tried: the five of the code and one it does not know
Strategies == {"remove", "forward_fill", "backward_fill", "median", "mode",
               "zero"}
\* the cells of column a: every listed null variant, blank strings of one and
\* three spaces, two ordinary strings; numbers for a numeric column
NullCells(dtype) ==
    IF dtype = "object"
    THEN {Null} \cup {<<str>> : str \in null_variants \cup {" ", "   ", "x", "y"}}
    ELSE IF dtype = "float64" THEN {Null, <<0>>, <<2>>, <<4>>}
    ELSE {<<0>>, <<2>>, <<4>>}
\* the tables with a column a of the given dtype and a column id that numbers
\* the rows
NullTables(dtype) ==
    {[columns |-> {"a", "id"},
      dtype |-> [c \in {"a", "id"} |-> IF c = "a" THEN dtype ELSE "int64"],
      rows |-> [k \in 1..Len(cells) |->
                   [c \in {"a", "id"} |-> IF c = "a" THEN cells[k] ELSE <<k>>]]] :
        cells \in SeqsUpTo(NullCells(dtype), MaxNullRows)}

\* coordinates are counted in tenths of a degree
Tenths == 10
\* clean_coordinate_format, lines 132 and 144: the bounds of France
LatMin == 41 * Tenths
LatMax == 51 * Tenths
LonMin == (-5) * Tenths
LonMax == 10 * Tenths

\* A cell of a coordinate column read as text is [text, n]: the number n
\* written with a decimal point (text = "point") or with a decimal comma
\* (text = "comma"), or a text that is no number (text = "bad").
\* fix_coordinate(value), lines 113-125
fix_coordinate(dtype, cell) ==
    IF cell = Null THEN Null
    ELSE IF dtype # "object" THEN cell
    ELSE LET str_val == IF cell[1].text = "comma"
                        THEN [cell[1] EXCEPT !.text = "point"]
                        ELSE cell[1]
         IN IF str_val.text = "point" THEN <<str_val.n>> ELSE Null

out_of_range_Strict(cell, lo, hi) ==
    cell # Null /\ (cell[1] <= lo \/ cell[1] >= hi)
\* (df[col] < lo) | (df[col] > hi), lines 132 and 144: false on a missing cell
out_of_range(cell, lo, hi) ==
    cell # Null /\ (cell[1] < lo \/ cell[1] > hi)

\* lines 128-137 and 140-149: the repair of one coordinate column
clean_coordinate_column(df, col, lo, hi) ==
    IF col \notin df.columns THEN df
    ELSE LET fixed == [k \in 1..Len(df.rows) |->
                          fix_coordinate(df.dtype[col], df.rows[k][col])]
             valid == [k \in 1..Len(df.rows) |->
                          IF out_of_range(fixed[k], lo, hi) THEN Null
                          ELSE fixed[k]]
         IN [SetColumn(df, col, valid) EXCEPT !.dtype[col] = "float64"]

\* DataCleaner.clean_coordinate_format(df, lat_col, lon_col), lines 110-151
clean_coordinate_format(df, lat_col, lon_col) ==
    clean_coordinate_column(
        clean_coordinate_column(df, lat_col, LatMin, LatMax),
        lon_col, LonMin, LonMax)

MaxCoordRows == 2
\* the cells of a coordinate column: missing, numbers at, inside and just
\* outside the bounds, and for a text column both decimal marks and a text
\* that is no number
CoordCells(dtype, lo, hi) ==
    IF dtype = "float64"
    THEN {Null, <<lo - 1>>, <<lo>>, <<lo + 50>>, <<hi>>, <<hi + 1>>}
    ELSE {Null, <<[text |-> "comma", n |-> lo - 1]>>,
          <<[text |-> "point", n |-> lo]>>, <<[text |-> "comma", n |-> hi]>>,
          <<[text |-> "point", n |-> hi + 1]>>, <<[text |-> "bad", n |-> 0]>>}
CoordRows(dtype) ==
    IF DOMAIN dtype = {"latitude"}
    THEN {[latitude |-> lat] : lat \in CoordCells(dtype["latitude"], LatMin, LatMax)}
    ELSE IF DOMAIN dtype = {"longitude"}
    THEN {[longitude |-> lon] : lon \in CoordCells(dtype["longitude"], LonMin, LonMax)}
    ELSE {[latitude |-> lat, longitude |-> lon] :
             lat \in CoordCells(dtype["latitude"], LatMin, LatMax),
             lon \in CoordCells(dtype["longitude"], LonMin, LonMax)}
\* the tables with a latitude column, a longitude column or both, each read
\* as numbers or as text
CoordTablesOf(dtype) ==
    {[columns |-> DOMAIN dtype, dtype |-> dtype, rows |-> rows] :
        rows \in SeqsUpTo(CoordRows(dtype), MaxCoordRows)}

\* A cell of a date column read as text is [sep, f]: three fields of digits
\* f[1], f[2], f[3] joined by the separator sep ("/" or "-"), the field
\* [w, n] being the number n written with w digits (w = 2 or w = 4); a blank
\* string is [sep |-> " ", f |-> <<>>] and a text that is no date is
\* [sep |-> "x", f |-> <<>>].
Field(w, n) == [w |-> w, n |-> n]
BlankText == [sep |-> " ", f |-> <<>>]
BadText == [sep |-> "x", f |-> <<>>]

\* pattern in date_str, line 170: the pattern is a substring of the text.
\* A pattern "dd/" is two digits and a slash, a pattern "dd/mm/" two digits,
\* a slash, two digits and a slash, a pattern "/yyyy" a slash and four
\* digits; a field ends with the two digits dd when n % 100 = dd.
Contains(text, pattern) ==
    /\ text.sep = "/"
    /\ Len(text.f) = 3
    /\ IF pattern.shape = "dd/"
       THEN \E k \in {1, 2} : text.f[k].n % 100 = pattern.a
       ELSE IF pattern.shape = "dd/mm/"
       THEN /\ text.f[1].n % 100 = pattern.a
            /\ text.f[2] = Field(2, pattern.b)
       ELSE \E k \in {2, 3} : text.f[k] = Field(4, pattern.a)

invalid_patterns_No13 ==
    {[shape |-> "dd/", a |-> 32, b |-> 0],
     [shape |-> "dd/mm/", a |-> 0, b |-> 0],
     [shape |-> "/yyyy", a |-> 2023, b |-> 0],
     [shape |-> "dd/mm/", a |-> 31, b |-> 2],
     [shape |-> "dd/mm/", a |-> 30, b |-> 2]}
\* parse_date, line 169: '32/', '13/', '00/00/', '/2023', '31/02/', '30/02/'
invalid_patterns ==
    {[shape |-> "dd/", a |-> 32, b |-> 0],
     [shape |-> "dd/", a |-> 13, b |-> 0],
     [shape |-> "dd/mm/", a |-> 0, b |-> 0],
     [shape |-> "/yyyy", a |-> 2023, b |-> 0],
     [shape |-> "dd/mm/", a |-> 31, b |-> 2],
     [shape |-> "dd/mm/", a |-> 30, b |-> 2]}

\* clean_date_formats, line 159: a format is its separator and the order of
\* its directives
date_formats ==
    <<[sep |-> "-", order |-> <<"Y", "m", "d">>],
      [sep |-> "/", order |-> <<"d", "m", "Y">>],
      [sep |-> "/", order |-> <<"m", "d", "Y">>],
      [sep |-> "-", order |-> <<"d", "m", "Y">>],
      [sep |-> "/", order |-> <<"Y", "m", "d">>]>>

\* the date of the day d of the month m of the year y, or missing when the
\* calendar has no such day
MakeDate(y, m, d) ==
    LET leap == (y % 4 = 0 /\ y % 100 # 0) \/ y % 400 = 0
        days == IF m = 2 THEN (IF leap THEN 29 ELSE 28)
                ELSE IF m \in {4, 6, 9, 11} THEN 30 ELSE 31
    IN IF y >= 1 /\ m \in 1..12 /\ d >= 1 /\ d <= days
       THEN <<[y |-> y, m |-> m, d |-> d]>>
       ELSE Null

\* pd.to_datetime(date_str, format=fmt), line 175: %Y takes four digits, %m
\* and %d two; missing stands for the exception
strptime(text, fmt) ==
    IF text.sep # fmt.sep \/ Len(text.f) # 3 THEN Null
    ELSE IF \E k \in 1..3 :
               text.f[k].w # (IF fmt.order[k] = "Y" THEN 4 ELSE 2)
    THEN Null
    ELSE LET at(directive) ==
                 text.f[CHOOSE k \in 1..3 : fmt.order[k] = directive].n
         IN MakeDate(at("Y"), at("m"), at("d"))

\* pd.to_datetime(date_str, dayfirst=True), line 181: the day-first reading
\* of three numbers, the month-first reading when the first cannot be a
\* month, the year first when it is written first with four digits; a year
\* of two digits is of this century; missing stands for the exception
to_datetime_dayfirst(text) ==
    IF Len(text.f) # 3 THEN Null
    ELSE IF Cardinality({k \in 1..3 : text.f[k].w = 4}) > 1 THEN Null
    ELSE LET n == [k \in 1..3 |-> text.f[k].n]
             century(y) == IF y < 100 THEN 2000 + y ELSE y
         IN IF n[1] > 31 \/ text.f[1].w = 4
            THEN IF n[3] <= 12 THEN MakeDate(century(n[1]), n[3], n[2])
                 ELSE MakeDate(century(n[1]), n[2], n[3])
            ELSE IF n[1] > 12 \/ n[2] <= 12
            THEN MakeDate(century(n[3]), n[2], n[1])
            ELSE MakeDate(century(n[3]), n[1], n[2])

\* the loop of lines 173-177 from format k on, then the fallback of lines
\* 180-183: the date and the parsers tried
RECURSIVE TryFormats(_, _, _)
TryFormats(text, k, tried) ==
    IF k > Len(date_formats)
    THEN [value |-> to_datetime_dayfirst(text),
          tried |-> Append(tried, "dayfirst")]
    ELSE IF strptime(text, date_formats[k]) # Null
    THEN [value |-> strptime(text, date_formats[k]),
          tried |-> Append(tried, date_formats[k])]
    ELSE TryFormats(text, k + 1, Append(tried, date_formats[k]))

\* parse_date(date_str), lines 161-183: the date and the parsers tried
parse_date(cell) ==
    IF cell = Null \/ cell[1] = BlankText
    THEN [value |-> Null, tried |-> <<>>]
    ELSE IF \E pattern \in invalid_patterns : Contains(cell[1], pattern)
    THEN [value |-> Null, tried |-> <<>>]
    ELSE TryFormats(cell[1], 1, <<>>)

\* DataCleaner.clean_date_formats(df, date_col), lines 153-191
clean_date_formats(df, date_col) ==
    IF date_col \notin df.columns THEN df
    ELSE [SetColumn(df, date_col,
              [k \in 1..Len(df.rows) |-> parse_date(df.rows[k][date_col]).value])
          EXCEPT !.dtype[date_col] = "datetime64"]

\* the tables with one row and a date column, the empty table with the
\* column and the table without it; the cells are missing, blank, no date,
\* or three fields that are days, months and years, valid or not, joined by
\* either separator
DateTables ==
    LET texts == {[sep |-> sep, f |-> <<f1, f2, f3>>] :
                    sep \in {"/", "-"},
                    f1 \in {Field(2, 0), Field(2, 2), Field(2, 5),
                            Field(2, 13), Field(2, 30), Field(2, 31),
                            Field(2, 32), Field(4, 2023), Field(4, 2024)},
                    f2 \in {Field(2, 0), Field(2, 2), Field(2, 5),
                            Field(2, 13), Field(2, 30)},
                    f3 \in {Field(2, 5), Field(2, 13), Field(4, 2023),
                            Field(4, 2024)}}
        cells == {Null} \cup {<<text>> : text \in texts \cup {BlankText, BadText}}
    IN {[columns |-> {"date"}, dtype |-> [c \in {"date"} |-> "object"],
         rows |-> <<[c \in {"date"} |-> cell]>>] : cell \in cells}
       \cup {[columns |-> {"date"}, dtype |-> [c \in {"date"} |-> "object"],
              rows |-> <<>>],
             [columns |-> {"id"}, dtype |-> [c \in {"id"} |-> "int64"],
              rows |-> <<[c \in {"id"} |-> <<1>>]>>]}

\* A text cell is a string of the sample; clean_text_column, lines 93-99:
\* str.strip(), str.title() and the collapse of runs of spaces, string by
\* string
normalize_text ==
    [str \in {"Paris", "  paris  ", "LYON", "  ", "None", "Textile",
              "alimentaire", "ALIMENTAIRE "} |->
        CASE str = "Paris" -> "Paris"
          [] str = "  paris  " -> "Paris"
          [] str = "LYON" -> "Lyon"
          [] str = "  " -> ""
          [] str = "None" -> "None"
          [] str = "Textile" -> "Textile"
          [] str = "alimentaire" -> "Alimentaire"
          [] str = "ALIMENTAIRE " -> "Alimentaire"]

\* DataCleaner.clean_text_column(df, column), lines 85-108: a missing cell is
\* the string 'nan' after astype(str), 'Nan' after title(), and missing again
\* after line 102, like the empty string
clean_text_column(df, column) ==
    IF column \notin df.columns THEN df
    ELSE SetColumn(df, column,
            [k \in 1..Len(df.rows) |->
                LET cell == df.rows[k][column]
                    text == IF cell = Null THEN "Nan"
                            ELSE normalize_text[cell[1]]
                IN IF text \in {"", "Nan"} THEN Null ELSE <<text>>])

MaxTextRows == 2
\* the tables with a text column ville and a column id that numbers the rows
TextTables ==
    {[columns |-> {"ville", "id"},
      dtype |-> [c \in {"ville", "id"} |->
                    IF c = "ville" THEN "object" ELSE "int64"],
      rows |-> [k \in 1..Len(cells) |->
                   [c \in {"ville", "id"} |->
                       IF c = "ville" THEN cells[k] ELSE <<k>>]]] :
        cells \in SeqsUpTo({Null} \cup {<<str>> : str \in DOMAIN normalize_text},
                           MaxTextRows)}

MaxDupRows == 3
\* the float64 tables with columns a and b and at most MaxDupRows rows
DupTables ==
    {[columns |-> {"a", "b"}, dtype |-> [c \in {"a", "b"} |-> "float64"],
      rows |-> rows] :
        rows \in SeqsUpTo([{"a", "b"} -> {Null, <<0>>, <<1>>}], MaxDupRows)}

InitP ==
    /\ MainIdle /\ CIdle
    /\ pout = <<>>
    /\ \/ /\ pop = "remove_duplicates"
          /\ pdf \in DupTables
          /\ parg \in SUBSET {"a", "b"}
       \/ /\ pop = "clean_null_values"
          /\ \E dtype \in {"object", "float64", "int64"} :
                pdf \in NullTables(dtype)
          /\ parg \in Strategies
       \/ /\ pop = "clean_coordinate_format"
          /\ \E cols \in {{"latitude", "longitude"}, {"latitude"},
                           {"longitude"}} :
                \E dtype \in [cols -> {"float64", "object"}] :
                    pdf \in CoordTablesOf(dtype)
          /\ parg = <<"latitude", "longitude">>
       \/ /\ pop = "clean_date_formats"
          /\ pdf \in DateTables
          /\ parg = "date"
       \/ /\ pop = "clean_text_column"
          /\ pdf \in TextTables
          /\ parg \in {"ville", "enseigne"}

\* remove_duplicates applied to the table, then to the table it returned
ApplyRemoveDuplicates ==
    /\ pop = "remove_duplicates"
    /\ \/ /\ pout = <<>>
          /\ pout' = <<remove_duplicates(pdf, parg)>>
       \/ /\ Len(pout) = 1 /\ ~pout[1].raised
          /\ pout' = Append(pout, remove_duplicates(pout[1].df, parg))
    /\ UNCHANGED <<pop, pdf, parg, cvars, vdf, vsuite, vout,
                   fsvars, runvars, histvars>>

\* clean_null_values applied to column a of the table: the table returned
\* and the caller's table object after the call
ApplyCleanNullValues ==
    /\ pop = "clean_null_values"
    /\ pout = <<>>
    /\ pout' = <<[raised |-> FALSE, error |-> "",
                  df |-> clean_null_values(pdf, "a", parg),
                  arg |-> clean_null_values_inplace(pdf, "a", parg)]>>
    /\ UNCHANGED <<pop, pdf, parg, cvars, vdf, vsuite, vout,
                   fsvars, runvars, histvars>>

\* clean_coordinate_format applied to the table: lines 129-149 assign the
\* columns on the caller's table object, which line 151 returns
ApplyCleanCoordinateFormat ==
    /\ pop = "clean_coordinate_format"
    /\ pout = <<>>
    /\ pout' = <<[raised |-> FALSE, error |-> "",
                  df |-> clean_coordinate_format(pdf, parg[1], parg[2]),
                  arg |-> clean_coordinate_format(pdf, parg[1], parg[2])]>>
    /\ UNCHANGED <<pop, pdf, parg, cvars, vdf, vsuite, vout,
                   fsvars, runvars, histvars>>

\* clean_date_formats applied to the table, with the parsers parse_date
\* tried on each cell: line 186 assigns the column on the caller's table
\* object, which line 191 returns
ApplyCleanDateFormats ==
    /\ pop = "clean_date_formats"
    /\ pout = <<>>
    /\ pout' = <<[raised |-> FALSE, error |-> "",
                  df |-> clean_date_formats(pdf, parg),
                  arg |-> clean_date_formats(pdf, parg),
                  tried |-> IF parg \in pdf.columns
                            THEN [k \in 1..Len(pdf.rows) |->
                                     parse_date(pdf.rows[k][parg]).tried]
                            ELSE <<>>]>>
    /\ UNCHANGED <<pop, pdf, parg, cvars, vdf, vsuite, vout,
                   fsvars, runvars, histvars>>

\* clean_text_column applied to the table: lines 93-102 assign the column on
\* the caller's table object, which line 108 returns
ApplyCleanTextColumn ==
    /\ pop = "clean_text_column"
    /\ pout = <<>>
    /\ pout' = <<[raised |-> FALSE, error |-> "",
                  df |-> clean_text_column(pdf, parg),
                  arg |-> clean_text_column(pdf, parg)]>>
    /\ UNCHANGED <<pop, pdf, parg, cvars, vdf, vsuite, vout,
                   fsvars, runvars, histvars>>

NextP ==
    \/ ApplyRemoveDuplicates
    \/ ApplyCleanTextColumn
    \/ ApplyCleanDateFormats
    \/ ApplyCleanCoordinateFormat
    \/ ApplyCleanNullValues

SpecP == InitP /\ [][NextP]_vars

\* ------------------------------------------------ the dataset cleaners on tables
\* Numbers of a measure column are whole numbers of a fixed unit; the sample
\* values are multiples of 100 units, so that the interpolation of a
\* quantile between two of them is exact.

\* Series.quantile(q), q = hundredths / 100, by linear interpolation between
\* the two nearest ranks of the non-missing values; missing when none
quantile(col, hundredths) ==
    LET vals == [k \in 1..Len(dropna(col)) |-> dropna(col)[k][1]]
        n == Len(vals)
        pos == hundredths * (n - 1)
        lower == KthSmallest(vals, pos \div 100 + 1)
        upper == KthSmallest(vals, IF pos % 100 = 0 THEN pos \div 100 + 1
                                                    ELSE pos \div 100 + 2)
    IN IF n = 0 THEN Null
       ELSE <<lower + ((pos % 100) * (upper - lower)) \div 100>>

\* DataCleaner.detect_outliers(df, column), lines 209-231, method 'iqr': the
\* mask of the cells below Q1 - 1.5 IQR or above Q3 + 1.5 IQR (compared
\* after doubling both sides); all false when the column is absent or not
\* numeric, and on the missing cells
detect_outliers(df, column) ==
    IF column \notin df.columns \/ df.dtype[column] \notin NumericDtypes
    THEN [k \in 1..Len(df.rows) |-> FALSE]
    ELSE LET col == ColumnValues(df, column)
             Q1 == quantile(col, 25)
             Q3 == quantile(col, 75)
         IN [k \in 1..Len(df.rows) |->
                /\ col[k] # Null
                /\ Q1 # Null
                /\ \/ 2 * col[k][1] < 5 * Q1[1] - 3 * Q3[1]
                   \/ 2 * col[k][1] > 5 * Q3[1] - 3 * Q1[1]]

\* An identifier cell is the sequence of the parts its text joins with "_".
\* Series.str.contains(marker, na=False), lines 272 and 369: some part is the
\* marker; false on a missing cell
str_contains(cell, marker) ==
    cell # Null /\ \E k \in 1..Len(cell[1]) : cell[1][k] = marker

CleaningStats_FinalRate(initial_count, final_count) ==
    [initial_count |-> initial_count,
     final_count |-> final_count,
     removed_count |-> initial_count - final_count,
     cleaning_rate |-> [num |-> final_count * 100, den |-> initial_count]]
\* lines 275-280, 324-329 and 379-384: the statistics of a cleaner, the rate
\* (initial_count - final_count) / initial_count * 100 as the exact fraction
\* num/den
CleaningStats(initial_count, final_count) ==
    [initial_count |-> initial_count,
     final_count |-> final_count,
     removed_count |-> initial_count - final_count,
     cleaning_rate |-> [num |-> (initial_count - final_count) * 100,
                        den |-> initial_count]]

\* the outcome of a cleaner: the table it returned and the statistics it
\* recorded in cleaning_stats, or the exception it raised (remove_duplicates
\* raises on a table without rows)
Cleaned(initial_count, df) ==
    [raised |-> FALSE, error |-> "", df |-> df,
     stats |-> <<CleaningStats(initial_count, Len(df.rows))>>]
CleanerRaised(error) ==
    [raised |-> TRUE, error |-> error, df |-> EmptyTable, stats |-> <<>>]

\* df.loc[mask, column] = np.nan, line 262: an int64 column that receives a
\* missing cell becomes float64
SetMissing(df, column, mask) ==
    LET masked == SetColumn(df, column,
                     [k \in 1..Len(df.rows) |->
                         IF mask[k] THEN Null ELSE df.rows[k][column]])
    IN IF \E k \in 1..Len(df.rows) : mask[k]
       THEN [masked EXCEPT !.dtype[column] = "float64"]
       ELSE masked

\* clean_magasins_data, lines 257-265: for each numeric column present, the
\* outliers become missing and the missing cells take the median
RECURSIVE clean_numeric_columns(_, _)
clean_numeric_columns(df, numeric_cols) ==
    IF numeric_cols = <<>> THEN df
    ELSE LET col == numeric_cols[1]
             rest == SubSeq(numeric_cols, 2, Len(numeric_cols))
         IN IF col \in df.columns
            THEN clean_numeric_columns(
                     clean_null_values(
                         SetMissing(df, col, detect_outliers(df, col)),
                         col, "median"),
                     rest)
            ELSE clean_numeric_columns(df, rest)

clean_magasins_data_NoDupFilter(raw_df) ==
    LET initial_count == Len(raw_df.rows)
        villes == clean_null_values(clean_text_column(raw_df, "ville"),
                                    "ville", "remove")
        coords == clean_null_values(
                      clean_null_values(
                          clean_coordinate_format(villes, "latitude",
                                                  "longitude"),
                          "latitude", "remove"),
                      "longitude", "remove")
        dates == IF "date_ouverture" \in coords.columns
                 THEN clean_date_formats(coords, "date_ouverture")
                 ELSE coords
        numerics == clean_numeric_columns(dates,
                        <<"ca_annuel", "population_zone_1km", "surface_vente",
                          "effectif">>)
        deduped == remove_duplicates(numerics, {"latitude", "longitude"})
    IN IF deduped.raised THEN CleanerRaised(deduped.error)
       ELSE Cleaned(initial_count, deduped.df)
\* DataCleaner.clean_magasins_data, lines 233-284, on the table read from
\* the raw file
clean_magasins_data(raw_df) ==
    LET initial_count == Len(raw_df.rows)
        villes == clean_null_values(clean_text_column(raw_df, "ville"),
                                    "ville", "remove")
        coords == clean_null_values(
                      clean_null_values(
                          clean_coordinate_format(villes, "latitude",
                                                  "longitude"),
                          "latitude", "remove"),
                      "longitude", "remove")
        dates == IF "date_ouverture" \in coords.columns
                 THEN clean_date_formats(coords, "date_ouverture")
                 ELSE coords
        numerics == clean_numeric_columns(dates,
                        <<"ca_annuel", "population_zone_1km", "surface_vente",
                          "effectif">>)
        deduped == remove_duplicates(numerics, {"latitude", "longitude"})
    IN IF deduped.raised THEN CleanerRaised(deduped.error)
       ELSE Cleaned(initial_count,
                FilterRows(deduped.df, [k \in 1..Len(deduped.df.rows) |->
                    ~str_contains(deduped.df.rows[k]["id_magasin"], "DUP")]))

\* zone_chalandise_km is counted in thousandths of a kilometre
ZoneUnit == 1000
\* clean_concurrents_data, line 309: above this many kilometres a value is
\* taken for metres
MaxZoneKm == 100
\* line 310: metres per kilometre
MetersPerKm == 1000

\* clean_concurrents_data, lines 307-312: the values above 100 are divided
\* by 1000 (an int64 column that receives a quotient becomes float64)
correct_zone_units(df) ==
    IF "zone_chalandise_km" \notin df.columns THEN df
    ELSE LET col == ColumnValues(df, "zone_chalandise_km")
             mask_meters == [k \in 1..Len(col) |->
                                col[k] # Null /\ col[k][1] > MaxZoneKm * ZoneUnit]
             corrected == SetColumn(df, "zone_chalandise_km",
                             [k \in 1..Len(col) |->
                                 IF mask_meters[k]
                                 THEN <<col[k][1] \div MetersPerKm>>
                                 ELSE col[k]])
         IN IF \E k \in 1..Len(col) : mask_meters[k]
            THEN [corrected EXCEPT !.dtype["zone_chalandise_km"] = "float64"]
            ELSE corrected

\* lines 315-318: the missing cells of each numeric column present take the
\* median of the column
RECURSIVE impute_medians(_, _)
impute_medians(df, numeric_cols) ==
    IF numeric_cols = <<>> THEN df
    ELSE LET col == numeric_cols[1]
             rest == SubSeq(numeric_cols, 2, Len(numeric_cols))
         IN IF col \in df.columns
            THEN impute_medians(clean_null_values(df, col, "median"), rest)
            ELSE impute_medians(df, rest)

correct_and_impute_ImputeFirst(df) ==
    correct_zone_units(
        impute_medians(df, <<"surface_prevue", "investissement",
                             "zone_chalandise_km">>))
\* lines 306-318: the unit correction, then the imputation
correct_and_impute(df) ==
    impute_medians(correct_zone_units(df),
                   <<"surface_prevue", "investissement",
                     "zone_chalandise_km">>)

\* DataCleaner.clean_concurrents_data, lines 286-333
clean_concurrents_data(raw_df) ==
    LET initial_count == Len(raw_df.rows)
        coords == clean_null_values(
                      clean_null_values(
                          clean_coordinate_format(raw_df, "latitude",
                                                  "longitude"),
                          "latitude", "remove"),
                      "longitude", "remove")
        texts == clean_text_column(
                     clean_text_column(
                         clean_text_column(coords, "type_concurrent"),
                         "enseigne_concurrent"),
                     "ville_proche")
        deduped == remove_duplicates(correct_and_impute(texts),
                                     {"latitude", "longitude"})
    IN IF deduped.raised THEN CleanerRaised(deduped.error)
       ELSE Cleaned(initial_count, deduped.df)

remove_negative_amounts_Clamp(df) ==
    SetColumn(df, "montant",
        [k \in 1..Len(df.rows) |->
            LET cell == df.rows[k]["montant"]
            IN IF cell # Null /\ cell[1] < 0 THEN <<0>> ELSE cell])
\* clean_transactions_data, lines 352-355: when some amount is negative,
\* only the rows with montant >= 0 are kept (the comparison is false on a
\* missing amount)
remove_negative_amounts(df) ==
    LET col == ColumnValues(df, "montant")
        negative_count == Cardinality({k \in 1..Len(col) :
                                          col[k] # Null /\ col[k][1] < 0})
    IN IF negative_count > 0
       THEN FilterRows(df, [k \in 1..Len(col) |->
                             col[k] # Null /\ col[k][1] >= 0])
       ELSE df

\* lines 358-360: the outliers are capped at the 99th percentile
cap_outliers(df) ==
    LET outliers == detect_outliers(df, "montant")
        outlier_threshold == quantile(ColumnValues(df, "montant"), 99)
    IN SetColumn(df, "montant",
          [k \in 1..Len(df.rows) |->
              LET cell == df.rows[k]["montant"]
              IN IF outliers[k] /\ outlier_threshold[1] < cell[1]
                 THEN outlier_threshold ELSE cell])

clean_transactions_data_AlwaysFilter(raw_df) ==
    LET initial_count == Len(raw_df.rows)
        dates == clean_null_values(clean_date_formats(raw_df, "date"),
                                   "date", "remove")
        amounts == IF "montant" \in dates.columns
                   THEN cap_outliers(FilterRows(dates,
                            [k \in 1..Len(dates.rows) |->
                                /\ dates.rows[k]["montant"] # Null
                                /\ dates.rows[k]["montant"][1] >= 0]))
                   ELSE dates
        categories == clean_null_values(
                          clean_text_column(amounts, "categorie"),
                          "categorie", "mode")
        references ==
            IF "magasin_id" \in categories.columns
            THEN FilterRows(categories, [k \in 1..Len(categories.rows) |->
                     ~str_contains(categories.rows[k]["magasin_id"],
                                   "INEXISTANT")])
            ELSE categories
        deduped == remove_duplicates(references, {})
    IN IF deduped.raised THEN CleanerRaised(deduped.error)
       ELSE Cleaned(initial_count, deduped.df)
\* DataCleaner.clean_transactions_data, lines 335-388
clean_transactions_data(raw_df) ==
    LET initial_count == Len(raw_df.rows)
        dates == clean_null_values(clean_date_formats(raw_df, "date"),
                                   "date", "remove")
        amounts == IF "montant" \in dates.columns
                   THEN cap_outliers(remove_negative_amounts(dates))
                   ELSE dates
        categories == clean_null_values(
                          clean_text_column(amounts, "categorie"),
                          "categorie", "mode")
        references ==
            IF "magasin_id" \in categories.columns
            THEN FilterRows(categories, [k \in 1..Len(categories.rows) |->
                     ~str_contains(categories.rows[k]["magasin_id"],
                                   "INEXISTANT")])
            ELSE categories
        deduped == remove_duplicates(references, {})
    IN IF deduped.raised THEN CleanerRaised(deduped.error)
       ELSE Cleaned(initial_count, deduped.df)

MaxCleanRows == 4

\* raw store rows: a clean one, one with a padded city and no turnover, one
\* with a blank city, a _DUP copy at the coordinates of the first, one out
\* of France, one with an aberrant turnover; coordinates are written with a
\* decimal point or a decimal comma
SampleMagasins ==
    LET PointText(n) == <<[text |-> "point", n |-> n]>>
        CommaText(n) == <<[text |-> "comma", n |-> n]>>
        MagasinRow(id, ville, latitude, longitude, ca_annuel) ==
            [id_magasin |-> <<id>>, ville |-> ville, latitude |-> latitude,
             longitude |-> longitude, ca_annuel |-> ca_annuel]
    IN
    {MagasinRow(<<"MAG", "001">>, <<"Paris">>, PointText(LatMin + 50),
                PointText(LonMin + 70), <<200>>),
     MagasinRow(<<"MAG", "002">>, <<"  paris  ">>, CommaText(LatMin + 60),
                CommaText(LonMin + 70), Null),
     MagasinRow(<<"MAG", "003">>, <<"  ">>, PointText(LatMin + 70),
                PointText(LonMin + 70), <<400>>),
     MagasinRow(<<"MAG", "004", "DUP">>, <<"LYON">>, PointText(LatMin + 50),
                PointText(LonMin + 70), <<200>>),
     MagasinRow(<<"MAG", "005">>, <<"Paris">>, PointText(LatMax + 1),
                PointText(LonMin + 70), <<400>>),
     MagasinRow(<<"MAG", "006">>, <<"LYON">>, PointText(LatMin + 80),
                PointText(LonMax), <<100000>>)}
MagasinsTables ==
    {[columns |-> {"id_magasin", "ville", "latitude", "longitude", "ca_annuel"},
      dtype |-> [id_magasin |-> "object", ville |-> "object",
                 latitude |-> "object", longitude |-> "object",
                 ca_annuel |-> "float64"],
      rows |-> rows] : rows \in SeqsUpTo(SampleMagasins, MaxCleanRows)}

\* raw competitor rows: radii of 2 km, of 5000 (metres), missing, of 100 and
\* of 102; one row at the coordinates of the first, one out of France
SampleConcurrents ==
    LET ConcurrentRow(id, latitude, longitude, enseigne, zone) ==
            [id_site |-> <<id>>, latitude |-> latitude,
             longitude |-> longitude, enseigne_concurrent |-> enseigne,
             zone_chalandise_km |-> zone]
    IN
    {ConcurrentRow(<<"SITE", "1">>, <<LatMin + 50>>, <<LonMin + 70>>,
                   <<"LYON">>, <<2 * ZoneUnit>>),
     ConcurrentRow(<<"SITE", "2">>, <<LatMin + 60>>, <<LonMin + 70>>,
                   <<"Paris">>, <<5000 * ZoneUnit>>),
     ConcurrentRow(<<"SITE", "3">>, <<LatMin + 50>>, <<LonMin + 70>>,
                   Null, Null),
     ConcurrentRow(<<"SITE", "4">>, <<LatMax + 1>>, <<LonMin + 70>>,
                   <<"LYON">>, <<102 * ZoneUnit>>),
     ConcurrentRow(<<"SITE", "5">>, <<LatMin + 70>>, <<LonMin + 70>>,
                   <<"  paris  ">>, <<MaxZoneKm * ZoneUnit>>),
     ConcurrentRow(<<"SITE", "6">>, <<LatMin + 80>>, <<LonMin + 70>>,
                   <<"LYON">>, Null),
     ConcurrentRow(<<"SITE", "7">>, <<LatMin + 90>>, <<LonMin + 70>>,
                   <<"LYON">>, <<102 * ZoneUnit>>)}
ConcurrentsTables ==
    {[columns |-> {"id_site", "latitude", "longitude", "enseigne_concurrent",
                   "zone_chalandise_km"},
      dtype |-> [id_site |-> "object", latitude |-> "float64",
                 longitude |-> "float64", enseigne_concurrent |-> "object",
                 zone_chalandise_km |-> "float64"],
      rows |-> rows] : rows \in SeqsUpTo(SampleConcurrents, MaxCleanRows)}

\* raw transaction rows: two ordinary ones, a negative amount, a missing
\* amount, an aberrant amount, an invalid date, an unknown store, a missing
\* category with a zero amount, a negative amount with an invalid date; the
\* dates are the texts "2024-05-13" and "32/13/2023"
SampleTransactions ==
    LET TransactionRow(id, date, magasin_id, montant, categorie) ==
            [transaction_id |-> <<id>>, date |-> <<date>>,
             magasin_id |-> <<magasin_id>>, montant |-> montant,
             categorie |-> categorie]
        GoodDate == [sep |-> "-",
                     f |-> <<Field(4, 2024), Field(2, 5), Field(2, 13)>>]
        BadDate == [sep |-> "/",
                    f |-> <<Field(2, 32), Field(2, 13), Field(4, 2023)>>]
    IN
    {TransactionRow(<<"TXN", "1">>, GoodDate, <<"MAG", "001">>, <<10000>>,
                    <<"Textile">>),
     TransactionRow(<<"TXN", "2">>, GoodDate, <<"MAG", "001">>, <<10000>>,
                    <<"alimentaire">>),
     TransactionRow(<<"TXN", "3">>, GoodDate, <<"MAG", "001">>, <<-1250>>,
                    <<"Textile">>),
     TransactionRow(<<"TXN", "4">>, GoodDate, <<"MAG", "001">>, Null,
                    <<"Textile">>),
     TransactionRow(<<"TXN", "5">>, GoodDate, <<"MAG", "001">>, <<5000000>>,
                    <<"ALIMENTAIRE ">>),
     TransactionRow(<<"TXN", "6">>, BadDate, <<"MAG", "001">>, <<20000>>,
                    <<"Textile">>),
     TransactionRow(<<"TXN", "7">>, GoodDate, <<"MAG", "INEXISTANT", "001">>,
                    <<30000>>, <<"Textile">>),
     TransactionRow(<<"TXN", "8">>, GoodDate, <<"MAG", "001">>, <<0>>, Null),
     TransactionRow(<<"TXN", "9">>, BadDate, <<"MAG", "001">>, <<-2500>>,
                    <<"Textile">>)}
TransactionsTables ==
    {[columns |-> {"transaction_id", "date", "magasin_id", "montant",
                   "categorie"},
      dtype |-> [transaction_id |-> "object", date |-> "object",
                 magasin_id |-> "object", montant |-> "float64",
                 categorie |-> "object"],
      rows |-> rows] : rows \in SeqsUpTo(SampleTransactions, MaxCleanRows)}

InitC ==
    /\ MainIdle /\ PIdle
    /\ cout = <<>>
    /\ \/ cds = "magasins" /\ craw \in MagasinsTables
       \/ cds = "concurrents" /\ craw \in ConcurrentsTables
       \/ cds = "transactions" /\ craw \in TransactionsTables

CleanMagasins ==
    /\ cds = "magasins" /\ cout = <<>>
    /\ cout' = <<clean_magasins_data(craw)>>
    /\ UNCHANGED <<cds, craw, pvars, vdf, vsuite, vout,
                   fsvars, runvars, histvars>>

CleanConcurrents ==
    /\ cds = "concurrents" /\ cout = <<>>
    /\ cout' = <<clean_concurrents_data(craw)>>
    /\ UNCHANGED <<cds, craw, pvars, vdf, vsuite, vout,
                   fsvars, runvars, histvars>>

CleanTransactions ==
    /\ cds = "transactions" /\ cout = <<>>
    /\ cout' = <<clean_transactions_data(craw)>>
    /\ UNCHANGED <<cds, craw, pvars, vdf, vsuite, vout,
                   fsvars, runvars, histvars>>

NextC ==
    \/ CleanMagasins
    \/ CleanConcurrents
    \/ CleanTransactions

SpecC == InitC /\ [][NextC]_vars

\* ------------------------------------------------------------- properties
Terminated == pc \in {"done", "failed"}
Ops(op) == {k \in 1..Len(trace) : trace[k].op = op}
Did(op, d) == \E k \in 1..Len(trace) : trace[k] = Ev(op, d)
ValidatorReturned == pipeline_stats.validation # <<>>
Summary == pipeline_stats.validation[1]

\* C1: run_full_pipeline never raises to its caller: whichever stage fails,
\* the call returns a structured result, and the result has success = false,
\* an error message and the stats exactly when some stage failed.
C1_NeverRaises ==
    /\ result.kind # "raised"
    /\ Terminated => result.kind = "returned"
    /\ pc = "failed" => /\ ~result.success
                        /\ result.error # "none"
                        /\ result.stats = pipeline_stats
    /\ pc = "done" => result.success /\ result.error = "none"
    /\ result.kind = "returned" => (pc = "failed" <=> ~result.success)

C1_Witness ==
    /\ pc = "failed" /\ result.kind = "returned"
    /\ result.error = "report" /\ Did("live_write", "concurrents")

\* C2: quality gate: once the validator has returned, the run fails at the
\* gate if and only if overall_success_rate < 80; from 80 up to but not
\* including 100 the run goes on to promotion with the warning logged;
\* exactly 80 passes, and a single suite with 6 of 8 passing (75%) fails.
C2_QualityGate ==
    /\ ValidatorReturned =>
         LET rate == overall_success_rate(Summary)
             gate_failed == pc = "failed" /\ result.error = "gate"
         IN /\ gate_failed <=> RateLess(rate, 80)
            /\ RateAtLeast(rate, 80) =>
                 \/ pc \in {"promote", "metadata", "live_backup", "live_write",
                            "report", "done"}
                 \/ pc = "failed" /\ result.error \in {"promotion", "live", "report"}
            /\ (RateAtLeast(rate, 80) /\ RateLess(rate, 100)) => warned
            /\ RateAtLeast(rate, 100) => ~warned
    /\ ~GateRaises(ValidationSummary(
            [d \in {"magasins"} |-> SuiteResult(5, 4, <<>>)]))
    /\ GateRaises(ValidationSummary(
            [d \in {"magasins"} |-> SuiteResult(8, 6, <<>>)]))

C2_Witness ==
    /\ pc = "promote" /\ ValidatorReturned /\ warned
    /\ Summary # <<>>
    /\ Summary[1].passed_tests = 12 /\ Summary[1].total_tests = 14

\* C3: promotion is all-or-nothing: at the end of every run either the result
\* is success and every processed and live table holds this run's staged
\* output, or the result is failure and no processed or live table was
\* changed by the run.
C3_AllOrNothing ==
    Terminated =>
        \/ /\ result.success
           /\ \A d \in Datasets : processed[d] = run
           /\ \A d \in Range(processed_files) : live[d] = run
        \/ /\ ~result.success
           /\ processed = processed0
           /\ live = live0

\* C4: every processed file that exists before the run is preserved as a
\* backup before the new content is written to its path: the content a
\* processed file held before an overwrite exists in some backup file.
C4_BackupBeforeOverwrite ==
    \A o \in overwritten :
        \E b \in backups : b.file = o.file /\ b.content = o.content

\* Live update: a live file that differs from what it was at the start of the
\* run has its previous content in a backup, and a live file written by this
\* run was written after the backup step of that file.
LiveBackedUpFirst ==
    \A d \in Datasets :
        /\ (live[d] # live0[d] /\ live0[d] # Absent) =>
              [file |-> d, content |-> live0[d]] \in backups
        /\ (run > 0 /\ live[d] = run) =>
              \E k \in 1..Len(trace) :
                  /\ trace[k] = Ev("live_backup", d)
                  /\ \E m \in (k + 1)..Len(trace) : trace[m] = Ev("live_write", d)

\* C5 (as stated): the previous live file is backed up before the new one is
\* written, and every processed table (stores, competitors, transactions) is
\* copied to the live location.
C5_AllTablesLive ==
    /\ LiveBackedUpFirst
    /\ pc = "done" => \A d \in Datasets : live[d] = processed[d]

\* C5 (amended): the previous live file is backed up before the new one is
\* written, and the stores and competitors tables are copied to the live
\* location; the transactions table is never copied there.
C5_LiveUpdate ==
    /\ LiveBackedUpFirst
    /\ pc = "done" => \A d \in Range(processed_files) : live[d] = processed[d]
    /\ \A d \in Datasets \ Range(processed_files) : live[d] = live0[d]

C5_Witness ==
    /\ pc = "done" /\ run = 2
    /\ [file |-> "magasins", content |-> 1] \in backups
    /\ live["magasins"] = 2 /\ live["concurrents"] = 2

\* C6: stage ordering START, CLEANING, VALIDATING, PROMOTING, DONE; no
\* processed or live file is written before all three cleaners have staged
\* their output and, unless validation is skipped, the validator has run and
\* the gate has passed; DONE is reached only through PROMOTING.
StageRank(op) ==
    IF op \in {"check_raw", "generate"} THEN 1
    ELSE IF op \in {"clean", "stage", "cleaning_report"} THEN 2
    ELSE IF op = "validate" THEN 3
    ELSE IF op \in {"promote", "metadata", "live_backup", "live_write"} THEN 4
    ELSE 5

C6_StageOrder ==
    /\ \A k \in 1..(Len(trace) - 1) :
           StageRank(trace[k].op) <= StageRank(trace[k + 1].op)
    /\ (processed # processed0 \/ live # live0 \/ (run > 0 /\ metadata = run)) =>
          /\ \A d \in Datasets : staging[d] = run /\ Did("stage", d)
          /\ skip_validation \/
                (/\ Did("validate", "-") /\ ValidatorReturned
                 /\ RateAtLeast(overall_success_rate(Summary), 80))
          /\ skip_validation => ~Did("validate", "-")
    /\ pc = "done" =>
          /\ \A d \in Range(staging_files) : Did("promote", d)
          /\ \A d \in Range(processed_files) : Did("live_write", d)
          /\ Did("metadata", "-")

C6_Witness ==
    /\ pc = "done" /\ ~skip_validation /\ warned
    /\ \A d \in Datasets : processed[d] = run

\* C7: a stage failure is terminal: the run is FAILED, nothing is performed
\* after the failing stage (FAILED is left only by the start of a new run),
\* and no stage is executed twice.
ErrorOps(e) ==
    IF e = "generator" THEN {"generate"}
    ELSE IF e = "FileNotFoundError" THEN {"check_raw"}
    ELSE IF e = "cleaning" THEN {"clean", "cleaning_report"}
    ELSE IF e \in {"validation", "gate"} THEN {"validate"}
    ELSE IF e = "promotion" THEN {"promote", "metadata"}
    ELSE IF e = "live" THEN {"live_backup", "live_write"}
    ELSE IF e = "report" THEN {"report"}
    ELSE {}

C7_FailureTerminalState ==
    /\ (result.kind # "none" /\ ~result.success) =>
          /\ pc = "failed"
          /\ trace # <<>>
          /\ trace[Len(trace)].op \in ErrorOps(result.error)
    /\ \A k, m \in 1..Len(trace) :
          (k # m /\ trace[k] = trace[m]) => trace[k].op = "check_raw"
    /\ Cardinality(Ops("check_raw")) <= 2

C7_FailureTerminal ==
    /\ []C7_FailureTerminalState
    /\ [][pc = "failed" => (pc' = "check_raw" /\ run' = run + 1)]_vars

C7_Witness ==
    /\ pc = "failed" /\ result.error = "gate" /\ ~Did("promote", "magasins")

\* C8: when a raw file is missing the generator is invoked at most once and
\* the availability check is repeated once; if a file is still missing the
\* run ends FAILED without running any cleaner; if all files are present at
\* the first check the generator is never invoked.
C8_OneRegeneration ==
    /\ generator_calls <= 1
    /\ Cardinality(Ops("check_raw")) <= 2
    /\ generator_calls = Cardinality(Ops("generate"))
    /\ check_raw_data_availability(raw0) =>
          generator_calls = 0 /\ Cardinality(Ops("check_raw")) <= 1
    /\ (~check_raw_data_availability(raw0) /\ Len(trace) >= 2) =>
          trace[1].op = "check_raw" /\ trace[2].op = "generate"
    /\ (Cardinality(Ops("check_raw")) = 2 /\ ~check_raw_data_availability(raw)) =>
          /\ pc = "failed" /\ result.error = "FileNotFoundError"
          /\ Ops("clean") = {}
          /\ staging = [d \in Datasets |-> Absent] \/ \A d \in Datasets : staging[d] # run
    /\ Ops("clean") # {} => check_raw_data_availability(raw)

C8_Witness ==
    /\ pc = "failed" /\ result.error = "FileNotFoundError"
    /\ generator_calls = 1 /\ Cardinality(Ops("check_raw")) = 2

\* C9: the validation stage evaluates a suite against every cleaned dataset
\* (stores, competitors, transactions): a defect in any one of the three
\* staged tables lowers the overall rate.
C9_AllDatasetsValidated ==
    ValidatorReturned =>
        /\ Summary # <<>>
        /\ Summary[1].datasets_validated = Cardinality(Datasets)
        /\ \A d \in Datasets : quality[d] > 0 => ~overall_success(Summary)

\* C10: for every suite and table, passed_tests + failed_tests = total_tests,
\* 0 <= success_rate <= 100, success_rate = passed/total*100, and success
\* holds exactly when passed_tests = total_tests.
C10_SuiteStatistics ==
    vout # <<>> =>
        LET r == vout[1]
            st == r.statistics
            passed == Cardinality({k \in 1..Len(r.results) : r.results[k].success})
        IN /\ st.total_tests = Len(vsuite)
           /\ Len(r.results) = Len(vsuite)
           /\ st.passed_tests = passed
           /\ st.passed_tests + st.failed_tests = st.total_tests
           /\ RateAtLeast(st.success_rate, 0) /\ RateAtMost(st.success_rate, 100)
           /\ st.success_rate.den > 0
           /\ st.success_rate.num * st.total_tests
                 = st.passed_tests * 100 * st.success_rate.den
           /\ r.success <=> (st.passed_tests = st.total_tests)

C10_Witness ==
    /\ vout # <<>>
    /\ vout[1].statistics.total_tests = 2
    /\ vout[1].statistics.passed_tests = 1
    /\ ~vout[1].success

\* the expectation kinds that read kwargs['column']
ColumnKinds == {"expect_column_to_exist",
                "expect_column_values_to_be_unique",
                "expect_column_values_to_not_be_null",
                "expect_column_values_to_be_between",
                "expect_column_values_to_be_of_type"}
\* evaluating e raises inside the try block (KeyError on kwargs['column'])
Raises(e) == e.expectation_type \in ColumnKinds /\ ~e.haskey

\* C11: rule isolation: an expectation whose evaluation raises is recorded as
\* failed with the error as its detail, every other expectation of the suite
\* is still evaluated, and the results hold exactly one entry per
\* expectation, in suite order.
C11_RuleIsolation ==
    vout # <<>> =>
        LET results == vout[1].results IN
        /\ Len(results) = Len(vsuite)
        /\ \A k \in 1..Len(vsuite) :
              /\ results[k].kwargs = vsuite[k]
              /\ results[k].expectation_type = vsuite[k].expectation_type
              /\ Raises(vsuite[k]) =>
                    ~results[k].success /\ results[k].result.tag = "error"
              /\ ~Raises(vsuite[k]) =>
                    /\ results[k].result.tag # "error"
                    /\ results[k] = EvalExpectation(vdf, vsuite[k])
        /\ vout[1].statistics.passed_tests =
              Cardinality({k \in 1..Len(results) : results[k].success})

C11_Witness ==
    /\ vout # <<>>
    /\ Len(vsuite) = 2
    /\ Raises(vsuite[1])
    /\ vout[1].results[1].result.tag = "error"
    /\ vout[1].results[2].success
    /\ vout[1].statistics.passed_tests = 1

\* C12: an expectation of kind column-unique, column-not-null,
\* column-value-range or column-type whose column is absent from the table is
\* reported as failed without raising; for column-exists the absence is
\* reported as observed value false and the expectation fails.
C12_AbsentColumn ==
    vout # <<>> =>
        \A k \in 1..Len(vsuite) :
            LET e == vsuite[k]
                r == vout[1].results[k]
            IN (e.expectation_type \in ColumnKinds /\ e.haskey
                  /\ e.column \notin vdf.columns) =>
                  /\ ~r.success
                  /\ r.result.tag # "error"
                  /\ e.expectation_type = "expect_column_to_exist" =>
                        r.result = ObservedBool(FALSE)

C12_Witness ==
    /\ vout # <<>>
    /\ vdf.columns = {}
    /\ vsuite = <<ValuesBetween("a", 1, 2), ColumnToExist("a")>>
    /\ ~vout[1].results[1].success
    /\ vout[1].results[2].result = ObservedBool(FALSE)

\* C13: for all tables, the empty table included, and every column subset,
\* duplicate removal is idempotent: remove_duplicates applied twice yields
\* the table it yields applied once, the second application removing no row.
C13_Idempotent ==
    pop = "remove_duplicates" =>
        /\ \A k \in 1..Len(pout) : ~pout[k].raised
        /\ Len(pout) = 2 =>
              /\ pout[2].df = pout[1].df
              /\ Len(pout[2].df.rows) = Len(pout[1].df.rows)

\* the whitespace-only strings of the sample cells
WhitespaceOnly == {" ", "  ", "   "}
\* the cell is one of the null variants the normalization is said to know
IsNullVariant(cell) ==
    \/ cell = Null
    \/ cell[1] \in {"", "NULL", "null", "N/A", "n/a", "#N/A", "None"}
    \/ cell[1] \in WhitespaceOnly

\* C14: null normalization treats every listed null variant as missing: the
\* empty string, any whitespace-only string, the tokens NULL, null, N/A, n/a,
\* #N/A, None and the native missing marker; with strategy 'remove' exactly
\* the rows holding one of them in the target column are dropped.
C14_NullVariantsRemoved ==
    (pop = "clean_null_values" /\ parg = "remove"
       /\ pdf.dtype["a"] = "object" /\ pout # <<>>) =>
        pout[1].df.rows =
            SelectSeq(pdf.rows, LAMBDA row : ~IsNullVariant(row["a"]))

\* the number m is the median of the numbers vals: the mean of the values of
\* the two middle ranks (one rank when the count is odd)
IsMedian(vals, m) ==
    LET n == Len(vals)
        le(x) == Cardinality({j \in 1..n : vals[j] <= x})
        ge(x) == Cardinality({j \in 1..n : vals[j] >= x})
        lo == (n + 1) \div 2
        hi == n \div 2 + 1
    IN \E a, b \in Range(vals) :
          /\ le(a) >= lo /\ ge(a) >= n - lo + 1
          /\ le(b) >= hi /\ ge(b) >= n - hi + 1
          /\ a + b = 2 * m

\* C15: on a numeric column, null normalization with strategy 'median' keeps
\* the number and the order of the rows, leaves every non-missing cell
\* unchanged, and sets every missing cell to the median of the values the
\* column had before imputation (the cell stays missing when it had none).
C15_MedianImputation ==
    (pop = "clean_null_values" /\ parg = "median"
       /\ pdf.dtype["a"] \in NumericDtypes /\ pout # <<>>) =>
        LET out == pout[1].df
            before == dropna(ColumnValues(pdf, "a"))
            vals == [k \in 1..Len(before) |-> before[k][1]]
        IN /\ ~pout[1].raised
           /\ Len(out.rows) = Len(pdf.rows)
           /\ \A k \in 1..Len(pdf.rows) :
                 /\ out.rows[k]["id"] = pdf.rows[k]["id"]
                 /\ pdf.rows[k]["a"] # Null =>
                       out.rows[k]["a"] = pdf.rows[k]["a"]
                 /\ (pdf.rows[k]["a"] = Null /\ vals # <<>>) =>
                       /\ out.rows[k]["a"] # Null
                       /\ IsMedian(vals, out.rows[k]["a"][1])
                 /\ (pdf.rows[k]["a"] = Null /\ vals = <<>>) =>
                       out.rows[k]["a"] = Null

C15_Witness ==
    /\ pop = "clean_null_values" /\ parg = "median"
    /\ pdf.dtype["a"] = "float64"
    /\ ColumnValues(pdf, "a") = << <<0>>, Null, <<4>> >>
    /\ pout # <<>>
    /\ ColumnValues(pout[1].df, "a") = << <<0>>, <<2>>, <<4>> >>

\* the number a raw coordinate cell parses to: <<v>>, or <<>> when the cell
\* is missing or no number
CoordValue(dtype, cell) ==
    IF cell = Null THEN <<>>
    ELSE IF dtype # "object" THEN cell
    ELSE IF cell[1].text = "bad" THEN <<>> ELSE <<cell[1].n>>

\* the repaired cell is the one the claim describes for the raw cell
CoordRepaired(dtype, raw_cell, cell, lo, hi) ==
    LET v == CoordValue(dtype, raw_cell)
    IN /\ cell = Null \/ (lo <= cell[1] /\ cell[1] <= hi)
       /\ v = <<>> => cell = Null
       /\ v # <<>> => /\ cell = Null <=> (v[1] < lo \/ v[1] > hi)
                      /\ cell # Null => cell = v

\* C16: after coordinate repair every latitude is missing or within [41, 51]
\* and every longitude is missing or within [-5, 10]; a parsable value is set
\* to missing exactly when it lies outside its interval, the bounds being
\* retained, and each column is repaired from its own cells alone.
C16_CoordinateRepair ==
    (pop = "clean_coordinate_format" /\ pout # <<>>) =>
        LET out == pout[1].df IN
        /\ ~pout[1].raised
        /\ out.columns = pdf.columns
        /\ Len(out.rows) = Len(pdf.rows)
        /\ \A k \in 1..Len(pdf.rows) :
              /\ "latitude" \in pdf.columns =>
                    CoordRepaired(pdf.dtype["latitude"],
                                  pdf.rows[k]["latitude"],
                                  out.rows[k]["latitude"], LatMin, LatMax)
              /\ "longitude" \in pdf.columns =>
                    CoordRepaired(pdf.dtype["longitude"],
                                  pdf.rows[k]["longitude"],
                                  out.rows[k]["longitude"], LonMin, LonMax)

C16_Witness ==
    /\ pop = "clean_coordinate_format" /\ pout # <<>>
    /\ pdf.columns = {"latitude", "longitude"}
    /\ pdf.dtype["latitude"] = "float64"
    /\ pdf.dtype["longitude"] = "object"
    /\ Len(pdf.rows) = 2
    /\ pdf.rows[1]["latitude"] = <<LatMin>>
    /\ pdf.rows[1]["longitude"] = <<[text |-> "point", n |-> LonMax + 1]>>
    /\ pdf.rows[2]["latitude"] = <<LatMax + 1>>
    /\ pdf.rows[2]["longitude"] = <<[text |-> "comma", n |-> LonMax]>>
    /\ pout[1].df.rows[1] = [latitude |-> <<LatMin>>, longitude |-> Null]
    /\ pout[1].df.rows[2] = [latitude |-> Null, longitude |-> <<LonMax>>]

\* the text is a known-invalid date written day first with slashes: day 32,
\* month 13, day and month 00, or the 30th or 31st of February
KnownInvalid(text) ==
    /\ text.sep = "/" /\ Len(text.f) = 3
    /\ text.f[1].w = 2 /\ text.f[2].w = 2
    /\ \/ text.f[1].n = 32
       \/ text.f[2].n = 13
       \/ text.f[1].n = 0 /\ text.f[2].n = 0
       \/ text.f[1].n \in {30, 31} /\ text.f[2].n = 2

\* C20: date repair rejects a known-invalid cell such as "32/13/2023" before
\* any parsing: the cell becomes missing and neither a format pattern nor
\* the fallback parser is tried on it; an empty or missing cell becomes
\* missing too.
C20_InvalidDatesRejected ==
    (pop = "clean_date_formats" /\ pout # <<>> /\ "date" \in pdf.columns) =>
        \A k \in 1..Len(pdf.rows) :
            LET cell == pdf.rows[k]["date"] IN
            /\ (cell = Null \/ cell[1] = BlankText) =>
                  pout[1].df.rows[k]["date"] = Null
            /\ (cell # Null /\ KnownInvalid(cell[1])) =>
                  /\ pout[1].df.rows[k]["date"] = Null
                  /\ pout[1].tried[k] = <<>>

\* the cell "32/13/2023" was repaired
C20_Witness ==
    /\ pop = "clean_date_formats" /\ pout # <<>>
    /\ pdf.rows = <<[date |-> <<[sep |-> "/",
                       f |-> <<Field(2, 32), Field(2, 13), Field(4, 2023)>>]>>]>>
    /\ pout[1].df.rows[1]["date"] = Null
    /\ pout[1].tried = << <<>> >>

\* a cleaner returned a table
CleanerReturned == cout # <<>> /\ ~cout[1].raised
RateEquals(r, n) == r.num = n * r.den

\* C17: every dataset cleaner records statistics with initial_count the
\* number of raw rows, final_count the number of rows of the returned table,
\* removed_count = initial_count - final_count, 0 <= final_count <=
\* initial_count and cleaning_rate = removed_count/initial_count*100 within
\* [0, 100]; 50 rows of which 3 are dropped give {50, 47, 3, 6.0}.
C17_CleaningStats ==
    /\ CleanerReturned =>
          /\ cout[1].stats # <<>>
          /\ LET stats == cout[1].stats[1] IN
             /\ stats.initial_count = Len(craw.rows)
             /\ stats.final_count = Len(cout[1].df.rows)
             /\ stats.removed_count = stats.initial_count - stats.final_count
             /\ 0 <= stats.final_count
             /\ stats.final_count <= stats.initial_count
             /\ stats.cleaning_rate.den = stats.initial_count
             /\ stats.cleaning_rate.num = stats.removed_count * 100
             /\ RateAtLeast(stats.cleaning_rate, 0)
             /\ RateAtMost(stats.cleaning_rate, 100)
    /\ LET example == CleaningStats(50, 47) IN
       /\ example.initial_count = 50 /\ example.final_count = 47
       /\ example.removed_count = 3
       /\ RateEquals(example.cleaning_rate, 6)

\* the stores cleaner returned one row of four
C17_Witness ==
    /\ CleanerReturned
    /\ cds = "magasins"
    /\ cout[1].stats[1].initial_count = 4
    /\ cout[1].stats[1].final_count = 1
    /\ cout[1].stats[1].removed_count = 3
    /\ RateEquals(cout[1].stats[1].cleaning_rate, 75)

\* the amount of a row is negative
NegativeAmount(row) == row["montant"] # Null /\ row["montant"][1] < 0

\* C18: after transaction cleaning no row of the output has a negative
\* amount: every input row with montant < 0 is removed entirely, neither
\* clamped nor nulled, and the later steps (outlier capping, category
\* imputation, reference filtering, deduplication) introduce none.
C18_NoNegativeAmount ==
    (cds = "transactions" /\ CleanerReturned) =>
        /\ \A k \in 1..Len(cout[1].df.rows) :
              ~NegativeAmount(cout[1].df.rows[k])
        /\ \A j \in 1..Len(craw.rows) :
              NegativeAmount(craw.rows[j]) =>
                 \A k \in 1..Len(cout[1].df.rows) :
                    cout[1].df.rows[k]["transaction_id"]
                       # craw.rows[j]["transaction_id"]

\* a negative amount between ordinary ones and a zero amount
C18_Witness ==
    /\ cds = "transactions" /\ CleanerReturned
    /\ Len(craw.rows) = 4
    /\ NegativeAmount(craw.rows[2])
    /\ ColumnValues(cout[1].df, "montant") = << <<10000>>, <<0>>, <<10000>> >>
    /\ ColumnValues(cout[1].df, "transaction_id") =
          << <<(<<"TXN", "1">>)>>, <<(<<"TXN", "8">>)>>, <<(<<"TXN", "2">>)>> >>

\* the raw rows that reach the unit correction: both coordinates in France
ReachesCorrection(row) ==
    /\ row["latitude"] # Null /\ row["longitude"] # Null
    /\ LatMin <= row["latitude"][1] /\ row["latitude"][1] <= LatMax
    /\ LonMin <= row["longitude"][1] /\ row["longitude"][1] <= LonMax
\* the radius the unit correction makes of the raw radius
CorrectedRadius(cell) ==
    IF cell[1] > MaxZoneKm * ZoneUnit THEN <<cell[1] \div MetersPerKm>>
    ELSE cell

\* C19: in competitor cleaning every catchment radius greater than 100 is
\* replaced by the value divided by 1000, every radius of at most 100 is
\* left unchanged, and the median that fills the missing radii is the median
\* of the corrected values.
C19_UnitCorrection ==
    (cds = "concurrents" /\ CleanerReturned) =>
        LET reaching == SelectSeq(craw.rows, ReachesCorrection)
            known == SelectSeq(reaching,
                         LAMBDA row : row["zone_chalandise_km"] # Null)
            vals == [k \in 1..Len(known) |->
                        CorrectedRadius(known[k]["zone_chalandise_km"])[1]]
        IN \A k \in 1..Len(cout[1].df.rows) :
              LET out == cout[1].df.rows[k]
                  j == CHOOSE j \in 1..Len(craw.rows) :
                          craw.rows[j]["id_site"] = out["id_site"]
                  before == craw.rows[j]["zone_chalandise_km"]
                  after == out["zone_chalandise_km"]
              IN /\ (before # Null /\ before[1] > MaxZoneKm * ZoneUnit) =>
                       after # Null /\ after[1] * MetersPerKm = before[1]
                 /\ (before # Null /\ before[1] <= MaxZoneKm * ZoneUnit) =>
                       after = before
                 /\ (before = Null /\ vals # <<>>) =>
                       after # Null /\ IsMedian(vals, after[1])
                 /\ (before = Null /\ vals = <<>>) => after = Null

\* radii of 2 km, 5000 and missing: 5000 becomes 5.0 and the missing one 3.5
C19_Witness ==
    /\ cds = "concurrents" /\ CleanerReturned
    /\ ColumnValues(craw, "zone_chalandise_km") =
          << <<2 * ZoneUnit>>, <<5000 * ZoneUnit>>, Null >>
    /\ ColumnValues(cout[1].df, "zone_chalandise_km") =
          << <<2 * ZoneUnit>>, <<5 * ZoneUnit>>, <<3500>> >>

\* C21: date repair rejects by literal only the known-invalid forms, and
\* every calendar-valid date written in one of the five supported formats,
\* whatever its day (13 included) and year (2023 included), is parsed to the
\* date given by the first format of date_formats that accepts it.
C21_ValidDatesParsed ==
    (pop = "clean_date_formats" /\ pout # <<>> /\ "date" \in pdf.columns) =>
        \A k \in 1..Len(pdf.rows) :
            LET cell == pdf.rows[k]["date"]
                accepting == {j \in 1..Len(date_formats) :
                                 strptime(cell[1], date_formats[j]) # Null}
                first == CHOOSE j \in accepting : \A h \in accepting : j <= h
            IN (cell # Null /\ cell[1] # BlankText) =>
                  /\ pout[1].tried[k] = <<>> => KnownInvalid(cell[1])
                  /\ accepting # {} =>
                        pout[1].df.rows[k]["date"] =
                           strptime(cell[1], date_formats[first])

\* C22: the column repair primitives are pure: clean_null_values,
\* clean_text_column, clean_coordinate_format and clean_date_formats leave
\* the table object passed in by the caller unchanged (same cells in every
\* column after the call as before), and in the returned table only the
\* target columns differ from the input on the rows that are kept.
C22_PrimitivesPure ==
    (/\ pop \in {"clean_null_values", "clean_text_column",
                 "clean_coordinate_format", "clean_date_formats"}
     /\ pout # <<>>) =>
        LET out == pout[1].df
            arg == pout[1].arg
            targets == IF pop = "clean_null_values" THEN {"a"}
                       ELSE IF pop = "clean_coordinate_format"
                       THEN {parg[1], parg[2]}
                       ELSE {parg}
        IN /\ arg.columns = pdf.columns
           /\ arg.dtype = pdf.dtype
           /\ Len(arg.rows) = Len(pdf.rows)
           /\ \A k \in 1..Len(pdf.rows) : arg.rows[k] = pdf.rows[k]
           /\ out.columns = pdf.columns
           /\ \A k \in 1..Len(out.rows) :
                 \E j \in k..Len(pdf.rows) :
                    \A c \in pdf.columns \ targets :
                       out.rows[k][c] = pdf.rows[j][c]

\* the strategy and the dtype of column a are a combination clean_null_values
\* does not support: median on a column that is not numeric, or a strategy
\* name it does not know
UnsupportedStrategy ==
    \/ parg \notin {"remove", "forward_fill", "backward_fill", "median", "mode"}
    \/ parg = "median" /\ pdf.dtype["a"] \notin {"int64", "float64"}

\* C23: null normalization with an unsupported strategy/type combination
\* (median on a non-numeric column, or an unknown strategy name) is a no-op:
\* no row is removed, no cell is filled, missing cells stay missing, and no
\* error is raised.
C23_UnsupportedNoOp ==
    (pop = "clean_null_values" /\ pout # <<>> /\ UnsupportedStrategy) =>
        LET out == pout[1].df
            missing(cell) ==
                \/ cell = Null
                \/ pdf.dtype["a"] = "object" /\ cell[1] \in null_variants
        IN /\ ~pout[1].raised
           /\ Len(out.rows) = Len(pdf.rows)
           /\ \A k \in 1..Len(pdf.rows) :
                 /\ out.rows[k]["id"] = pdf.rows[k]["id"]
                 /\ missing(pdf.rows[k]["a"]) => out.rows[k]["a"] = Null
                 /\ ~missing(pdf.rows[k]["a"]) =>
                       out.rows[k]["a"] = pdf.rows[k]["a"]

\* median asked on a text column with a missing cell, a null variant and a
\* value, and an unknown strategy on a numeric column with a missing cell
C23_Witness ==
    /\ pop = "clean_null_values" /\ pout # <<>>
    /\ \/ /\ parg = "median"
          /\ pdf.dtype["a"] = "object"
          /\ ColumnValues(pdf, "a") = <<Null, <<"NULL">>, <<"x">> >>
          /\ ColumnValues(pout[1].df, "a") = <<Null, Null, <<"x">> >>
       \/ /\ parg = "zero"
          /\ pdf.dtype["a"] = "float64"
          /\ ColumnValues(pdf, "a") = <<Null, <<2>>, <<4>> >>
          /\ ColumnValues(pout[1].df, "a") = <<Null, <<2>>, <<4>> >>

\* C24: when a run ends failed the returned stats are the stats accumulated
\* so far: they hold the cleaning stats when the cleaning stage completed,
\* the stats of every dataset cleaned before a later cleaner failed, and
\* the validation summary when the validator ran, the run rejected by the
\* gate included.
C24_StatsSoFar ==
    pc = "failed" =>
        /\ result.kind = "returned" /\ ~result.success
        /\ result.stats = pipeline_stats
        /\ result.error \in {"validation", "gate", "promotion", "live",
                             "report"} =>
              result.stats.cleaning = <<Datasets>>
        /\ \A d \in cleaning_stats :
              /\ result.stats.cleaning # <<>>
              /\ d \in result.stats.cleaning[1]
        /\ result.error = "gate" =>
              result.stats.validation =
                 <<validate_all_data(staging, quality).summary>>
        /\ (~skip_validation
            /\ result.error \in {"promotion", "live", "report"}) =>
              result.stats.validation # <<>>

\* C25: with skip_validation set the validator is never invoked in the run,
\* the run goes from cleaning directly to promotion, the stats hold no
\* validation entry and the outcome does not depend on the quality of the
\* cleaned data (no warning, no gate failure); with skip_validation unset the
\* validator is invoked at most once, and exactly once, after all cleaners
\* and before any promotion write, in a run that reaches promotion.
C25_SkipValidation ==
    LET at(op) == {k \in 1..Len(trace) : trace[k].op = op}
        promoting == at("promote") \cup at("metadata")
    IN IF skip_validation
       THEN /\ at("validate") = {}
            /\ pipeline_stats.validation = <<>>
            /\ result.stats.validation = <<>>
            /\ ~warned /\ result.error \notin {"gate", "validation"}
            /\ \A k \in at("promote") :
                  trace[k - 1].op \in {"cleaning_report", "promote"}
       ELSE /\ Cardinality(at("validate")) <= 1
            /\ \A v \in at("validate") :
                  /\ \A c \in at("clean") \cup at("stage") : c < v
                  /\ \A k \in promoting : v < k
            /\ promoting # {} => Cardinality(at("validate")) = 1

\* a run that skipped validation succeeded although every staged table has
\* as many defects as its suite can find
C25_Witness ==
    /\ skip_validation /\ pc = "done" /\ result.success
    /\ \A d \in Datasets : quality[d] = MaxFailed(d)
    /\ \E k \in 1..Len(trace) : trace[k].op = "promote"

\* C26: the validation summary combines the suites by test counts:
\* total_tests and passed_tests are the sums over the validated datasets,
\* overall_success_rate = passed_tests/total_tests*100 (not the mean of the
\* rates of the suites), and overall_success holds exactly when every
\* validated suite has success = true.
C26_SummaryCombination ==
    (pipeline_stats.validation # <<>> /\ pipeline_stats.validation[1] # <<>>) =>
        LET summary == pipeline_stats.validation[1][1]
            suites == validate_all_data(staging, quality).suites
            count(d, field) == IF d \in DOMAIN suites
                               THEN suites[d].statistics[field] ELSE 0
            total == count("magasins", "total_tests")
                        + count("transactions", "total_tests")
            passed == count("magasins", "passed_tests")
                        + count("transactions", "passed_tests")
        IN /\ summary.total_tests = total
           /\ summary.passed_tests = passed
           /\ total > 0 =>
                 summary.overall_success_rate.num * total
                    = passed * 100 * summary.overall_success_rate.den
           /\ summary.overall_success_rate.den > 0
           /\ summary.overall_success
                 <=> \A d \in DOMAIN suites : suites[d].success

\* both suites were evaluated, the stores suite with one failure and the
\* transactions suite with none: the combined rate is 13/14 of 100, while
\* the mean of the two rates would be 15/16 of 100
C26_Witness ==
    /\ pipeline_stats.validation # <<>> /\ pipeline_stats.validation[1] # <<>>
    /\ staging["magasins"] # Absent /\ staging["transactions"] # Absent
    /\ quality["magasins"] = 1 /\ quality["transactions"] = 0
    /\ LET summary == pipeline_stats.validation[1][1] IN
       /\ summary.total_tests = Len(create_magasins_expectations)
                                   + Len(create_transactions_expectations)
       /\ summary.passed_tests = summary.total_tests - 1
       /\ ~summary.overall_success
       /\ summary.overall_success_rate.num * summary.total_tests
             = summary.passed_tests * 100 * summary.overall_success_rate.den
       /\ summary.overall_success_rate.num * 2
             * Len(create_magasins_expectations)
             # (2 * Len(create_magasins_expectations) - 1) * 100
                  * summary.overall_success_rate.den

C28_StagingOrder ==
    LET steps == SelectSeq(trace, LAMBDA ev : ev.op \in {"clean", "stage"})
        expected == [k \in 1..(2 * Len(cleaning_order)) |->
                        Ev(IF k % 2 = 1 THEN "clean" ELSE "stage",
                           cleaning_order[(k + 1) \div 2])]
        cleaner_raised(k) ==
            /\ pc = "failed" /\ result.error = "cleaning"
            /\ trace[Len(trace)] = Ev("clean", cleaning_order[k])
            /\ cleaning_order[k] \notin cleaning_stats
    IN /\ Len(steps) <= Len(expected)
       /\ \A k \in 1..Len(steps) : steps[k] = expected[k]
       /\ \A k \in 1..Len(steps) :
             steps[k].op = "stage" => staging[steps[k].d] = run
       /\ \A k \in 1..Len(cleaning_order) :
             cleaner_raised(k) =>
                /\ result.kind = "returned" /\ ~result.success
                /\ Len(steps) = 2 * k - 1
                /\ \A j \in 1..(k - 1) : staging[cleaning_order[j]] = run
                /\ \A j \in k..Len(cleaning_order) :
                      staging[cleaning_order[j]] = staging0[cleaning_order[j]]

\* in the second run the competitors cleaner raised after the stores were
\* staged: the staged stores are of this run, the other two of the first
C28_Witness ==
    /\ run = 2 /\ pc = "failed" /\ result.error = "cleaning"
    /\ trace[Len(trace)] = Ev("clean", "concurrents")
    /\ "concurrents" \notin cleaning_stats
    /\ staging = [magasins |-> 2, concurrents |-> 1, transactions |-> 1]
    /\ staging0 = [magasins |-> 1, concurrents |-> 1, transactions |-> 1]

\* C29: for a suite with zero expectations validate_basic_expectations
\* reports success = true with success_rate = 0 and total_tests =
\* passed_tests = failed_tests = 0, without dividing by zero; likewise the
\* summary over the datasets reports overall_success_rate = 0 when its
\* total_tests is 0.
C29_EmptySuite ==
    /\ (vout # <<>> /\ vsuite = <<>>) =>
          /\ vout[1].success
          /\ vout[1].results = <<>>
          /\ vout[1].statistics.total_tests = 0
          /\ vout[1].statistics.passed_tests = 0
          /\ vout[1].statistics.failed_tests = 0
          /\ vout[1].statistics.success_rate.den > 0
          /\ RateEquals(vout[1].statistics.success_rate, 0)
    /\ (Len(vout) = 2 /\ vout[2][1].total_tests = 0) =>
          /\ vout[2][1].passed_tests = 0
          /\ vout[2][1].overall_success_rate.den > 0
          /\ RateEquals(vout[2][1].overall_success_rate, 0)

\* the empty suite was evaluated on a table with rows and summarised
C29_Witness ==
    /\ Len(vout) = 2
    /\ vsuite = <<>>
    /\ Len(vdf.rows) = MaxRows
    /\ vout[1].success
    /\ vout[1].statistics.total_tests = 0
    /\ vout[2][1].total_tests = 0
    /\ vout[2][1].overall_success
    /\ RateEquals(vout[2][1].overall_success_rate, 0)

\* C30: in transaction cleaning the rows whose amount is missing are removed
\* if and only if the table, after the date filtering, holds at least one
\* negative amount: the filter montant >= 0 then drops the negative and the
\* missing amounts, and when no amount is negative the filter is not
\* applied and the rows with a missing amount are kept.
C30_MissingAmounts ==
    (cds = "transactions" /\ CleanerReturned) =>
        LET out == cout[1].df.rows
            dated == SelectSeq(craw.rows, LAMBDA row :
                         parse_date(row["date"]).value # Null)
            some_negative == \E j \in 1..Len(dated) : NegativeAmount(dated[j])
            in_output(row) ==
                \E k \in 1..Len(out) :
                    /\ out[k]["transaction_id"] = row["transaction_id"]
                    /\ out[k]["montant"] = Null
        IN /\ \A j \in 1..Len(dated) :
                 (/\ dated[j]["montant"] = Null
                  /\ ~str_contains(dated[j]["magasin_id"], "INEXISTANT")) =>
                    (in_output(dated[j]) <=> ~some_negative)
           /\ some_negative =>
                 \A k \in 1..Len(out) : out[k]["montant"] # Null

\* a negative amount with a valid date: the row with the missing amount is
\* removed with it
C30_Witness ==
    /\ cds = "transactions" /\ CleanerReturned
    /\ Len(craw.rows) = 3
    /\ craw.rows[1]["montant"] = Null
    /\ parse_date(craw.rows[1]["date"]).value # Null
    /\ NegativeAmount(craw.rows[2])
    /\ parse_date(craw.rows[2]["date"]).value # Null
    /\ Len(cout[1].df.rows) = 1
    /\ cout[1].df.rows[1]["transaction_id"] = craw.rows[3]["transaction_id"]

====
